---- MODULE Spec2Model ----
(***************************************************************************)
(* A model of the streaming chat-completion pipeline of Personal-chatbot:  *)
(*   - the NDJSON stream decoder of OllamaClient._handleStreamingResponse  *)
(*     (src/src/services/llm/config.js),                                   *)
(*   - the localStorage store (src/unnamed/part_000),                      *)
(*   - the send / cancel life cycle of useLLM.sendMessageStream driven by  *)
(*     ChatInput and ChatInterfaceView, and the useLLM hook called         *)
(*     directly (src/src/hooks/useChatPersistence.js),                     *)
(*   - LLMService.initialize and setModel over the client's connection     *)
(*     test, model listing and pull.                                       *)
(* Text is a sequence of one-character strings; JavaScript values are      *)
(* tagged records, so that JSON.stringify / JSON.parse are conversions and *)
(* not the identity.                                                       *)
(***************************************************************************)
EXTENDS Integers, Sequences, FiniteSets, TLC

\* ------------------------------------------------------------------------
\* Bounds of the model
\* ------------------------------------------------------------------------

\* how many lines the server writes on one streaming response
MaxLines == 3
\* how many sendMessage / sendMessageStream calls are made on the hook
MaxHookCalls == 2
\* how many changeModel calls are in flight at once
MaxModelChanges == 1
\* how many initialize / setModel calls are made on the service
MaxServiceCalls == 3
\* how many messages the store may hold, over all chats, before a message
\* is added
MaxMsgs == 2
\* how many times the user submits the input box
MaxSubmits == 3
\* how many content chunks one streaming response carries
MaxChunks == 2
\* how many messages the caller hands to generateChatCompletion
MaxCallerMessages == 2
\* how many content chunks the segmenter is fed
MaxContentChunks == 4
\* how many messages the user sends in the conversation view
MaxSends == 2
\* the last value of Date.now()
MaxClock == 3
\* the longest chat list on which updateChat is given a patch with an id
MaxHistory == 3

VARIABLES
  \* ---- stream decoder ----
  sentLines,     \* the lines the server has written, in order (each without its line feed)
  wire,          \* text written by the server and not yet returned by reader.read()
  chanClosed,    \* the server has finished the response body
  yielded,       \* the records the generator has yielded so far
  streamPc,      \* "reading" | "done" | "failed": position of the generator
  raisedBy,      \* "none" | "read" | "parse": what made the generator throw
  readerLocked,  \* the reader obtained by getReader() has not been released
  cutInside,     \* some chunk returned by read() ended inside a line
  \* ---- store ----
  ls,            \* localStorage: key -> stored text
  lastOp,        \* the last store call: its name, chat id and argument
  ret,           \* what the last store call returned
  threw,         \* the last store call threw
  writeFailed,   \* a setItem of the last store call threw
  fresh,         \* localStorage of a fresh installation after importing an export
  \* ---- session ----
  isInitialized, \* useLLM state: initialize() succeeded
  isLoading,     \* useLLM state, as committed when the next event is handled
  initPc,        \* "idle" | "running" | "done": the initialize() of the mount effect
  calls,         \* the sendMessageStream calls so far: position, own abort signal, chunks seen
  abortControllerRef, \* index of the call whose controller the ref holds, 0 for null
  requests,      \* how many POST /api/chat requests were issued
  messages,      \* the message list of the view
  submits,       \* how many times the input box was submitted
  lastSubmit,    \* what became of the last submit
  \* ---- model server client: one generateChatCompletion call ----
  gcPc,          \* "idle" | "listing" | "posting" | "returned" | "failed"
  gcMessages,    \* the messages argument
  gcModelOption, \* options.model
  gcListing,     \* what the listing of /api/tags gave: model names, or a failure
  gcRequest,     \* the body posted to /api/chat, or NoRequest
  \* ---- segmenter: the text of one streamed answer ----
  fullContent,   \* the content accumulated by sendMessageStream
  contentChunks, \* how many content chunks were accumulated
  parsed,        \* parseThinkingAndAnswer(fullContent) as handed to onChunk
  liveContent,   \* the content of the assistant message of the view
  currentThinking, \* the text of the thinking box of the view
  \* ---- view: ChatInterfaceView's state restored on mount ----
  viewPc,        \* "unmounted", "loaded", "crashed"
  selectedChat,  \* the selected chat id, Null for none
  viewChatHistory, \* the chat list of the view
  viewMessages,  \* the messages of the view
  \* ---- pull: one pullModel call and its progress feed ----
  pullPc,        \* "idle", "reading", "done", "failed"
  pullSent,      \* the lines the server wrote on the feed
  pullWire,      \* characters written and not yet read
  pullClosed,    \* the server ended the feed
  pullProgress,  \* the values handed to onProgress, in order
  pullLocked,    \* the reader got from response.body is held
  pullResult,    \* what pullModel returned: "none", "success", "failure"
  \* ---- the end of the response body ----
  sentTail,      \* text the server wrote after its last line feed
  \* ---- conversation: the sends of ChatInterfaceView ----
  clock,         \* Date.now()
  send,          \* the last handleSendMessage call: its closure and position
  sendCount,     \* how many messages were sent
  \* ---- useLLM hook called directly ----
  modelChanges,  \* how many changeModel calls are in flight
  \* ---- LLMService ----
  currentModel,  \* LLMService.currentModel: NoModel or a model name
  serviceCalls   \* the initialize and setModel calls so far

decoderVars == <<sentLines, wire, chanClosed, yielded, streamPc, raisedBy,
                 readerLocked, cutInside>>

storeVars == <<ls, lastOp, ret, threw, writeFailed, fresh>>

sessionVars == <<isInitialized, isLoading, initPc, calls, abortControllerRef,
                 requests, messages, submits, lastSubmit>>

clientVars == <<gcPc, gcMessages, gcModelOption, gcListing, gcRequest>>

segmenterVars == <<fullContent, contentChunks, parsed, liveContent,
                   currentThinking>>

viewVars == <<viewPc, selectedChat, viewChatHistory, viewMessages>>

pullVars == <<pullPc, pullSent, pullWire, pullClosed, pullProgress, pullLocked,
              pullResult>>

vars == <<sentLines, wire, chanClosed, yielded, streamPc, raisedBy,
          readerLocked, cutInside, ls, lastOp, ret, threw, writeFailed, fresh,
          isInitialized, isLoading, initPc, calls, abortControllerRef,
          requests, messages, submits, lastSubmit,
          gcPc, gcMessages, gcModelOption, gcListing, gcRequest,
          fullContent, contentChunks, parsed, liveContent, currentThinking,
          viewPc, selectedChat, viewChatHistory, viewMessages,
          pullPc, pullSent, pullWire, pullClosed, pullProgress, pullLocked,
          pullResult, sentTail, clock, send, sendCount,
          modelChanges, currentModel, serviceCalls>>

\* what the actions of one component leave alone
conversationVars == <<clock, send, sendCount>>

hookVars == <<modelChanges>>

serviceVars == <<currentModel, serviceCalls>>

otherThanStream    == <<storeVars, sessionVars, clientVars, segmenterVars, viewVars, pullVars, conversationVars, hookVars, serviceVars>>
otherThanDecoder   == <<otherThanStream, sentTail>>
otherThanStore     == <<decoderVars, sessionVars, clientVars, segmenterVars, viewVars, pullVars, sentTail, conversationVars, hookVars, serviceVars>>
otherThanSession   == <<decoderVars, storeVars, clientVars, segmenterVars, viewVars, pullVars, sentTail, conversationVars, hookVars, serviceVars>>
otherThanClient    == <<decoderVars, storeVars, sessionVars, segmenterVars, viewVars, pullVars, sentTail, conversationVars, hookVars, serviceVars>>
otherThanSegmenter == <<decoderVars, storeVars, sessionVars, clientVars, viewVars, pullVars, sentTail, conversationVars, hookVars, serviceVars>>
otherThanPull      == <<decoderVars, storeVars, sessionVars, clientVars, segmenterVars, viewVars, sentTail, conversationVars, hookVars, serviceVars>>
\* what the handlers of the conversation view leave alone
otherThanConversation ==
  <<decoderVars, sessionVars, clientVars, segmenterVars, pullVars, sentTail,
    lastOp, ret, threw, writeFailed, fresh, viewPc, hookVars, serviceVars>>
\* what the calls of the useLLM hook leave alone
otherThanHook ==
  <<decoderVars, storeVars, clientVars, segmenterVars, viewVars, pullVars,
    sentTail, conversationVars, serviceVars>>
\* what the calls of LLMService leave alone
otherThanService ==
  <<decoderVars, storeVars, sessionVars, clientVars, segmenterVars, viewVars,
    pullVars, sentTail, conversationVars, hookVars>>
otherThanView      == <<decoderVars, storeVars, sessionVars, clientVars, segmenterVars, pullVars, sentTail, conversationVars, hookVars, serviceVars>>

\* ------------------------------------------------------------------------
\* Text
\* ------------------------------------------------------------------------

LF == "\n"
SP == " "

Digits == {"1", "2"}

\* String.prototype.trim on a text whose only white space is SP and LF
RECURSIVE TrimLeft(_)
TrimLeft(s) ==
  IF s # <<>> /\ Head(s) \in {SP, LF} THEN TrimLeft(Tail(s)) ELSE s

RECURSIVE TrimRight(_)
TrimRight(s) ==
  IF s # <<>> /\ s[Len(s)] \in {SP, LF}
    THEN TrimRight(SubSeq(s, 1, Len(s) - 1))
    ELSE s

Trim(s) == TrimRight(TrimLeft(s))

\* String.prototype.split('\n'): the pieces between line feeds, the empty
\* pieces and the piece after the last line feed included
RECURSIVE SplitFrom(_, _)
SplitFrom(s, cur) ==
  IF s = <<>> THEN <<cur>>
  ELSE IF Head(s) = LF THEN <<cur>> \o SplitFrom(Tail(s), <<>>)
  ELSE SplitFrom(Tail(s), Append(cur, Head(s)))

SplitLines(s) == SplitFrom(s, <<>>)

\* Array.prototype.filter(line => line.trim()): the empty string is falsy
RECURSIVE FilterNonBlank(_)
FilterNonBlank(lines) ==
  IF lines = <<>> THEN <<>>
  ELSE IF Trim(Head(lines)) # <<>>
    THEN <<Head(lines)>> \o FilterNonBlank(Tail(lines))
    ELSE FilterNonBlank(Tail(lines))

\* ------------------------------------------------------------------------
\* JSON.parse on the wire: numbers and arrays of at most one element, with
\* insignificant white space.  The parsed value is written in canonical
\* form (the text without its white space).
\* ------------------------------------------------------------------------

IsNumberText(t) == t # <<>> /\ \A i \in 1..Len(t) : t[i] \in Digits

RECURSIVE IsJsonText(_)
IsJsonText(s) ==
  LET t == Trim(s) IN
    \/ IsNumberText(t)
    \/ /\ Len(t) >= 2
       /\ t[1] = "["
       /\ t[Len(t)] = "]"
       /\ LET inner == Trim(SubSeq(t, 2, Len(t) - 1)) IN
            inner = <<>> \/ IsJsonText(inner)

RECURSIVE StripSpace(_)
StripSpace(s) ==
  IF s = <<>> THEN <<>>
  ELSE IF Head(s) \in {SP, LF} THEN StripSpace(Tail(s))
  ELSE <<Head(s)>> \o StripSpace(Tail(s))

\* JSON.parse(line): ok = FALSE stands for the SyntaxError it throws
JsonParseLine(line) ==
  IF IsJsonText(line)
    THEN [ok |-> TRUE, val |-> StripSpace(line)]
    ELSE [ok |-> FALSE, val |-> <<>>]

\* ------------------------------------------------------------------------
\* The decoder's loop body (config.js 433-444)
\* ------------------------------------------------------------------------

\* variant without the inner try/catch: the first line that does not parse
\* makes the generator throw
RECURSIVE DecodeLinesNoCatch(_)
DecodeLinesNoCatch(lines) ==
  IF lines = <<>> THEN [out |-> <<>>, raised |-> FALSE]
  ELSE LET p == JsonParseLine(Head(lines)) IN
    IF ~p.ok THEN [out |-> <<>>, raised |-> TRUE]
    ELSE LET r == DecodeLinesNoCatch(Tail(lines)) IN
      [out |-> <<p.val>> \o r.out, raised |-> r.raised]

\* for (const line of lines) { try { yield JSON.parse(line) } catch { skip } }
RECURSIVE DecodeLines(_)
DecodeLines(lines) ==
  IF lines = <<>> THEN [out |-> <<>>, raised |-> FALSE]
  ELSE LET p == JsonParseLine(Head(lines))
           r == DecodeLines(Tail(lines)) IN
    IF p.ok THEN [out |-> <<p.val>> \o r.out, raised |-> r.raised]
            ELSE r

\* decoder.decode(value); chunk.split('\n').filter(line => line.trim()); the loop
DecodeChunk(chunk) == DecodeLines(FilterNonBlank(SplitLines(chunk)))

\* ------------------------------------------------------------------------
\* Lines the server may write
\* ------------------------------------------------------------------------

WellFormedLines == { <<"1">>, <<"[", "1", "]">>, <<"[", SP, "]">> }
BrokenLines     == { <<"x">>, <<"[", "1">> }
Lines           == WellFormedLines \cup BrokenLines

\* ------------------------------------------------------------------------
\* Stream decoder: state machine
\* ------------------------------------------------------------------------

InitDecoder ==
  /\ sentLines = <<>>
  /\ wire = <<>>
  /\ chanClosed = FALSE
  /\ yielded = <<>>
  /\ streamPc = "reading"
  /\ raisedBy = "none"
  /\ readerLocked = TRUE
  /\ cutInside = FALSE

\* the server writes one line and its line feed on the response body
ServerWriteLine ==
  /\ ~chanClosed
  /\ streamPc = "reading"
  /\ Len(sentLines) < MaxLines
  /\ \E l \in Lines :
       /\ sentLines' = Append(sentLines, l)
       /\ wire' = wire \o l \o <<LF>>
  /\ UNCHANGED <<chanClosed, yielded, streamPc, raisedBy, readerLocked, cutInside>>
  /\ UNCHANGED otherThanDecoder

\* the server ends the response body
ServerClose ==
  /\ ~chanClosed
  /\ streamPc = "reading"
  /\ chanClosed' = TRUE
  /\ UNCHANGED <<sentLines, wire, yielded, streamPc, raisedBy, readerLocked, cutInside>>
  /\ UNCHANGED otherThanDecoder

\* reader.read() resolves with the next k characters; the loop body runs on them
ReaderReadChunk ==
  /\ streamPc = "reading"
  /\ wire # <<>>
  /\ \E k \in 1..Len(wire) :
       LET chunk == SubSeq(wire, 1, k)
           d     == DecodeChunk(chunk) IN
         /\ wire' = SubSeq(wire, k + 1, Len(wire))
         /\ yielded' = yielded \o d.out
         /\ cutInside' = (cutInside \/ chunk[k] # LF)
         /\ IF d.raised
              THEN /\ streamPc' = "failed"
                   /\ raisedBy' = "parse"
                   /\ readerLocked' = FALSE
              ELSE UNCHANGED <<streamPc, raisedBy, readerLocked>>
  /\ UNCHANGED <<sentLines, chanClosed>>
  /\ UNCHANGED otherThanDecoder

\* reader.read() resolves with done: break, then finally { reader.releaseLock() }
ReaderReadDone ==
  /\ streamPc = "reading"
  /\ wire = <<>>
  /\ chanClosed
  /\ streamPc' = "done"
  /\ readerLocked' = FALSE
  /\ UNCHANGED <<sentLines, wire, chanClosed, yielded, raisedBy, cutInside>>
  /\ UNCHANGED otherThanDecoder

\* reader.read() rejects (transport error): finally { reader.releaseLock() }, rethrown
ReaderReadFails ==
  /\ streamPc = "reading"
  /\ streamPc' = "failed"
  /\ raisedBy' = "read"
  /\ readerLocked' = FALSE
  /\ UNCHANGED <<sentLines, wire, chanClosed, yielded, cutInside>>
  /\ UNCHANGED otherThanDecoder

NextDecoder ==
  \/ ServerWriteLine
  \/ ServerClose
  \/ ReaderReadChunk
  \/ ReaderReadDone
  \/ ReaderReadFails

\* the server writes a last text with no line feed after it and ends the body
ServerWriteTail ==
  /\ ~chanClosed
  /\ streamPc = "reading"
  /\ \E l \in Lines :
       /\ sentTail' = l
       /\ wire' = wire \o l
  /\ chanClosed' = TRUE
  /\ UNCHANGED <<sentLines, yielded, streamPc, raisedBy, readerLocked, cutInside>>
  /\ UNCHANGED otherThanStream

NextDecoderTail ==
  \/ NextDecoder
  \/ ServerWriteTail

\* ------------------------------------------------------------------------
\* Claims about the stream decoder
\* ------------------------------------------------------------------------

RECURSIVE RecordsOf(_)
RecordsOf(lines) ==
  IF lines = <<>> THEN <<>>
  ELSE IF IsJsonText(Head(lines))
    THEN <<StripSpace(Head(lines))>> \o RecordsOf(Tail(lines))
    ELSE RecordsOf(Tail(lines))

AllWellFormed(lines) == \A i \in 1..Len(lines) : lines[i] \in WellFormedLines

\* C1: when every line written is well-formed JSON ended by a line feed, a
\* completed iteration has yielded exactly one record per line, in line
\* order, however the text was cut into chunks.
C1_OneRecordPerLine ==
  (streamPc = "done" /\ AllWellFormed(sentLines))
    => yielded = RecordsOf(sentLines)

Undefined  == [t |-> "undefined"]
Null       == [t |-> "null"]
Bool(b)    == [t |-> "bool", b |-> b]
Num(n)     == [t |-> "num", n |-> n]
Str(s)     == [t |-> "str", s |-> s]
\* a string holding the ISO-8601 text of instant n (Date.prototype.toISOString)
IsoStr(n)  == [t |-> "iso", at |-> n]
\* a Date object for instant n
DateObj(n) == [t |-> "date", at |-> n]
Arr(items) == [t |-> "arr", items |-> items]
\* fields: a function from property names to values
Obj(fields) == [t |-> "obj", fields |-> fields]

EmptyFields == [k \in {} |-> Null]

\* ToBoolean
Truthy(v) ==
  CASE v.t \in {"undefined", "null"} -> FALSE
    [] v.t = "bool" -> v.b
    [] v.t = "num" -> v.n # 0
    [] v.t = "str" -> v.s # ""
    [] OTHER -> TRUE

\* property key of a value used as a key (ToPropertyKey)
ToKey(v) ==
  CASE v.t = "num" -> ToString(v.n)
    [] v.t = "str" -> v.s
    [] v.t = "null" -> "null"
    [] v.t = "undefined" -> "undefined"

\* v.k and v[k] throw a TypeError on null and undefined
PropThrows(v) == v.t \in {"null", "undefined"}

\* v[k] on an object or a primitive without that property
Prop(v, k) ==
  IF v.t = "obj" /\ k \in DOMAIN v.fields THEN v.fields[k] ELSE Undefined

\* v[k] = x in strict mode (the file is an ES module): a TypeError on null,
\* undefined and on a primitive
SetPropThrows(v) ==
  v.t \in {"null", "undefined", "num", "bool", "str", "iso"}

SetProp(v, k, x) ==
  Obj([j \in DOMAIN v.fields \cup {k} |-> IF j = k THEN x ELSE v.fields[j]])

\* delete v[k]: a TypeError on null and undefined, nothing to do on a primitive
DeleteProp(v, k) ==
  IF v.t = "obj"
    THEN Obj([j \in DOMAIN v.fields \ {k} |-> v.fields[j]])
    ELSE v

\* the own enumerable properties copied by { ...v }: none for null, undefined,
\* numbers and booleans
SpreadFields(v) == IF v.t = "obj" THEN v.fields ELSE EmptyFields

\* { ...a, ...b }
Merge(f, g) ==
  [k \in DOMAIN f \cup DOMAIN g |-> IF k \in DOMAIN g THEN g[k] ELSE f[k]]

\* new Date(v) for the values used as time stamps
NewDate(v) ==
  CASE v.t \in {"iso", "date"} -> DateObj(v.at)
    [] v.t = "num" -> DateObj(v.n)

\* ------------------------------------------------------------------------
\* JSON.stringify / JSON.parse of values
\* ------------------------------------------------------------------------

\* the value JSON.stringify writes for v: a Date becomes its ISO string, an
\* undefined property is left out, an undefined array element becomes null
RECURSIVE ToJson(_)
ToJson(v) ==
  CASE v.t = "date" -> IsoStr(v.at)
    [] v.t = "arr" ->
         Arr([i \in 1..Len(v.items) |->
                IF v.items[i] = Undefined THEN Null ELSE ToJson(v.items[i])])
    [] v.t = "obj" ->
         Obj([k \in {j \in DOMAIN v.fields : v.fields[j] # Undefined} |->
                ToJson(v.fields[k])])
    [] OTHER -> v

\* what localStorage and documents hold
Absent    == [t |-> "absent"]    \* getItem returns null
EmptyText == [t |-> "empty"]     \* the empty string
Garbage   == [t |-> "garbage"]   \* a text JSON.parse rejects
Text(j)   == [t |-> "text", json |-> j]   \* the JSON text of value j

\* JSON.stringify(data) as a text; JSON.stringify(undefined) is undefined,
\* which setItem stores as the text "undefined"
JsonStringify(v) == IF v = Undefined THEN Garbage ELSE Text(ToJson(v))

\* JSON.parse(item): ok = FALSE stands for the SyntaxError
JsonParse(item) ==
  IF item.t = "text"
    THEN [ok |-> TRUE, val |-> item.json]
    ELSE [ok |-> FALSE, val |-> Undefined]

\* an approximation of text length: the number of JSON nodes
RECURSIVE JsonSize(_)
RECURSIVE SumSizes(_)
SumSizes(vs) == IF vs = <<>> THEN 0 ELSE JsonSize(Head(vs)) + SumSizes(Tail(vs))
JsonSize(v) ==
  CASE v.t = "arr" -> 1 + SumSizes(v.items)
    [] v.t = "obj" ->
         1 + SumSizes([i \in 1..Cardinality(DOMAIN v.fields) |-> Null])
    [] OTHER -> 1

\* item?.length || 0
TextLength(item) ==
  CASE item.t \in {"absent", "empty"} -> 0
    [] item.t = "garbage" -> 1
    [] OTHER -> JsonSize(item.json)

\* ========================================================================
\* The store (src/unnamed/part_000)
\* ========================================================================

CHAT_HISTORY  == "personalChatbot_chatHistory"
CHAT_MESSAGES == "personalChatbot_chatMessages"
APP_SETTINGS  == "personalChatbot_settings"
TEST_KEY      == "__localStorage_test__"

\* Object.values(STORAGE_KEYS), in order
STORAGE_KEYS == <<CHAT_HISTORY, CHAT_MESSAGES, APP_SETTINGS>>
StorageKeys  == {CHAT_HISTORY, CHAT_MESSAGES, APP_SETTINGS}
AllKeys      == StorageKeys \cup {TEST_KEY}

\* the value of Date.now() and of new Date() while the store is used
Now == 1

\* the outcome of a call: the localStorage it leaves, what it returns, whether
\* it threw, and whether a setItem it made threw
Ok(s, v)   == [store |-> s, ret |-> v, threw |-> FALSE, wfail |-> FALSE]
Throw(s)   == [store |-> s, ret |-> Undefined, threw |-> TRUE, wfail |-> FALSE]
\* r with the memory of an earlier failed write
After(w, r) == [r EXCEPT !.wfail = (w \/ r.wfail)]

\* a fault plan names the keys on which getItem, setItem, removeItem throw
NoFault == [rd |-> {}, wr |-> {}, rm |-> {}]

\* safeJSONParse(item, fallback), item being what getItem returned
safeJSONParse(item, fallback) ==
  IF item.t \in {"absent", "empty"} THEN fallback
  ELSE IF JsonParse(item).ok THEN JsonParse(item).val
  ELSE fallback

\* variant of safeJSONStringify that reports success although setItem threw
safeJSONStringifyAlwaysTrue(s, f, key, data) ==
  IF key \in f.wr
    THEN [store |-> s, ret |-> Bool(TRUE), threw |-> FALSE, wfail |-> TRUE]
    ELSE Ok([s EXCEPT ![key] = JsonStringify(data)], Bool(TRUE))

\* safeJSONStringify(key, data)
safeJSONStringify(s, f, key, data) ==
  IF key \in f.wr
    THEN [store |-> s, ret |-> Bool(FALSE), threw |-> FALSE, wfail |-> TRUE]
    ELSE Ok([s EXCEPT ![key] = JsonStringify(data)], Bool(TRUE))

\* restoreDateObjects(messages)
restoreDateObjects(msgs) ==
  IF msgs.t # "arr" THEN [ok |-> TRUE, val |-> msgs]
  ELSE IF \E i \in 1..Len(msgs.items) : PropThrows(msgs.items[i])
    THEN [ok |-> FALSE, val |-> Undefined]
  ELSE [ok |-> TRUE,
        val |-> Arr([i \in 1..Len(msgs.items) |->
                 LET m == msgs.items[i] IN
                   Obj(Merge(SpreadFields(m),
                     [timestamp |->
                        IF Truthy(Prop(m, "timestamp"))
                          THEN NewDate(Prop(m, "timestamp"))
                          ELSE DateObj(Now)]))])]

\* ---- chatHistoryStorage ----

chatHistory_save(s, f, chatHistory) ==
  safeJSONStringify(s, f, CHAT_HISTORY, chatHistory)

chatHistory_load(s, f) ==
  IF CHAT_HISTORY \in f.rd THEN Throw(s)
  ELSE Ok(s, safeJSONParse(s[CHAT_HISTORY], Arr(<<>>)))

\* the callbacks chat => chat.id ... throw on a null element
ElementThrows(items) == \E i \in 1..Len(items) : PropThrows(items[i])

\* variant of addChat that appends the record instead of prepending it
chatHistory_addChatAppend(s, f, newChat) ==
  LET l == chatHistory_load(s, f) IN
    IF l.threw THEN l
    ELSE IF l.ret.t # "arr" THEN Throw(s)
    ELSE IF ElementThrows(l.ret.items) THEN Throw(s)
    ELSE IF l.ret.items # <<>> /\ PropThrows(newChat) THEN Throw(s)
    ELSE chatHistory_save(s, f,
           Arr(SelectSeq(l.ret.items,
                  LAMBDA chat : Prop(chat, "id") # Prop(newChat, "id"))
               \o <<newChat>>))

chatHistory_addChat(s, f, newChat) ==
  LET l == chatHistory_load(s, f) IN
    IF l.threw THEN l
    ELSE IF l.ret.t # "arr" THEN Throw(s)
    ELSE IF ElementThrows(l.ret.items) THEN Throw(s)
    ELSE IF l.ret.items # <<>> /\ PropThrows(newChat) THEN Throw(s)
    ELSE chatHistory_save(s, f,
           Arr(<<newChat>> \o
               SelectSeq(l.ret.items,
                  LAMBDA chat : Prop(chat, "id") # Prop(newChat, "id"))))

\* variant of updateChat that adds the patch as a record when no id matches
chatHistory_updateChatUpsert(s, f, chatId, updates) ==
  LET l == chatHistory_load(s, f) IN
    IF l.threw THEN l
    ELSE IF l.ret.t # "arr" THEN Throw(s)
    ELSE IF ElementThrows(l.ret.items) THEN Throw(s)
    ELSE chatHistory_save(s, f,
           Arr(IF \E i \in 1..Len(l.ret.items) : Prop(l.ret.items[i], "id") = chatId
                 THEN [i \in 1..Len(l.ret.items) |->
                         LET chat == l.ret.items[i] IN
                           IF Prop(chat, "id") = chatId
                             THEN Obj(Merge(SpreadFields(chat), SpreadFields(updates)))
                             ELSE chat]
                 ELSE Append(l.ret.items, updates)))

chatHistory_updateChat(s, f, chatId, updates) ==
  LET l == chatHistory_load(s, f) IN
    IF l.threw THEN l
    ELSE IF l.ret.t # "arr" THEN Throw(s)
    ELSE IF ElementThrows(l.ret.items) THEN Throw(s)
    ELSE chatHistory_save(s, f,
           Arr([i \in 1..Len(l.ret.items) |->
                  LET chat == l.ret.items[i] IN
                    IF Prop(chat, "id") = chatId
                      THEN Obj(Merge(SpreadFields(chat), SpreadFields(updates)))
                      ELSE chat]))

\* ---- chatMessagesStorage ----

chatMessages_loadAll(s, f) ==
  IF CHAT_MESSAGES \in f.rd THEN Throw(s)
  ELSE Ok(s, safeJSONParse(s[CHAT_MESSAGES], Obj(EmptyFields)))

\* variant of save that stores a map holding the saved chat only
chatMessages_saveAlone(s, f, chatId, msgs) ==
  LET a == chatMessages_loadAll(s, f) IN
    IF a.threw THEN a
    ELSE IF SetPropThrows(a.ret) THEN Throw(s)
    ELSE safeJSONStringify(s, f, CHAT_MESSAGES,
                           SetProp(Obj(EmptyFields), ToKey(chatId), msgs))

chatMessages_save(s, f, chatId, msgs) ==
  LET a == chatMessages_loadAll(s, f) IN
    IF a.threw THEN a
    ELSE IF SetPropThrows(a.ret) THEN Throw(s)
    ELSE safeJSONStringify(s, f, CHAT_MESSAGES,
                           SetProp(a.ret, ToKey(chatId), msgs))

chatMessages_load(s, f, chatId) ==
  LET a == chatMessages_loadAll(s, f) IN
    IF a.threw THEN a
    ELSE IF PropThrows(a.ret) THEN Throw(s)
    ELSE LET stored   == Prop(a.ret, ToKey(chatId))
             msgs == IF Truthy(stored) THEN stored ELSE Arr(<<>>)
             r        == restoreDateObjects(msgs) IN
           IF r.ok THEN Ok(s, r.val) ELSE Throw(s)

chatMessages_addMessage(s, f, chatId, message) ==
  LET l == chatMessages_load(s, f, chatId) IN
    IF l.threw THEN l
    \* [...currentMessages, message]: a TypeError when not iterable
    ELSE IF l.ret.t # "arr" THEN Throw(s)
    ELSE chatMessages_save(s, f, chatId, Arr(Append(l.ret.items, message)))

chatMessages_updateMessage(s, f, chatId, messageId, updates) ==
  LET l == chatMessages_load(s, f, chatId) IN
    IF l.threw THEN l
    ELSE IF l.ret.t # "arr" THEN Throw(s)
    ELSE IF ElementThrows(l.ret.items) THEN Throw(s)
    ELSE chatMessages_save(s, f, chatId,
           Arr([i \in 1..Len(l.ret.items) |->
                  LET msg == l.ret.items[i] IN
                    IF Prop(msg, "id") = messageId
                      THEN Obj(Merge(SpreadFields(msg), SpreadFields(updates)))
                      ELSE msg]))

chatMessages_delete(s, f, chatId) ==
  LET a == chatMessages_loadAll(s, f) IN
    IF a.threw THEN a
    ELSE IF PropThrows(a.ret) THEN Throw(s)
    ELSE safeJSONStringify(s, f, CHAT_MESSAGES, DeleteProp(a.ret, ToKey(chatId)))

chatMessages_clear(s, f) ==
  IF CHAT_MESSAGES \in f.rm THEN Throw(s)
  ELSE Ok([s EXCEPT ![CHAT_MESSAGES] = Absent], Bool(TRUE))

\* ---- chatHistoryStorage, continued ----

chatHistory_deleteChat(s, f, chatId) ==
  LET l == chatHistory_load(s, f) IN
    IF l.threw THEN l
    ELSE IF l.ret.t # "arr" THEN Throw(s)
    ELSE IF ElementThrows(l.ret.items) THEN Throw(s)
    ELSE LET d == chatMessages_delete(s, f, chatId) IN
      IF d.threw THEN d
      ELSE After(d.wfail,
             chatHistory_save(d.store, f,
               Arr(SelectSeq(l.ret.items,
                     LAMBDA chat : Prop(chat, "id") # chatId))))

chatHistory_clear(s, f) ==
  IF CHAT_HISTORY \in f.rm THEN Throw(s)
  ELSE IF CHAT_MESSAGES \in f.rm THEN Throw([s EXCEPT ![CHAT_HISTORY] = Absent])
  ELSE Ok([s EXCEPT ![CHAT_HISTORY] = Absent, ![CHAT_MESSAGES] = Absent],
          Bool(TRUE))

\* ---- appSettingsStorage ----

DefaultSettings ==
  Obj([selectedChatId |-> Null, theme |-> Str("auto"),
       lastActiveTimestamp |-> Num(Now)])

appSettings_save(s, f, settings) ==
  safeJSONStringify(s, f, APP_SETTINGS, settings)

appSettings_load(s, f) ==
  IF APP_SETTINGS \in f.rd THEN Throw(s)
  ELSE Ok(s, safeJSONParse(s[APP_SETTINGS], DefaultSettings))

appSettings_update(s, f, key, value) ==
  LET l == appSettings_load(s, f) IN
    IF l.threw THEN l
    ELSE appSettings_save(s, f,
           Obj(Merge(SpreadFields(l.ret), [k \in {key} |-> value])))

\* ---- storageUtils ----

storageUtils_getStorageInfo(s, f) ==
  IF StorageKeys \cap f.rd # {}
    THEN Ok(s, Obj([chatHistory |-> Num(0), chatMessages |-> Num(0),
                    settings |-> Num(0), total |-> Num(0)]))
    ELSE LET h == TextLength(s[CHAT_HISTORY])
             m == TextLength(s[CHAT_MESSAGES])
             g == TextLength(s[APP_SETTINGS]) IN
           Ok(s, Obj([chatHistory |-> Num(h), chatMessages |-> Num(m),
                      settings |-> Num(g), total |-> Num(h + m + g)]))

storageUtils_isAvailable(s, f) ==
  IF TEST_KEY \in f.wr
    THEN [store |-> s, ret |-> Bool(FALSE), threw |-> FALSE, wfail |-> TRUE]
  ELSE IF TEST_KEY \in f.rm
    THEN Ok([s EXCEPT ![TEST_KEY] = Garbage], Bool(FALSE))
  ELSE Ok([s EXCEPT ![TEST_KEY] = Absent], Bool(TRUE))

\* Object.values(STORAGE_KEYS).forEach(key => localStorage.removeItem(key)),
\* inside one try: the first removeItem that throws ends the loop
RECURSIVE RemoveEach(_, _, _)
RemoveEach(s, f, keys) ==
  IF keys = <<>> THEN Ok(s, Bool(TRUE))
  ELSE IF Head(keys) \in f.rm THEN Ok(s, Bool(FALSE))
  ELSE RemoveEach([s EXCEPT ![Head(keys)] = Absent], f, Tail(keys))

storageUtils_clearAll(s, f) == RemoveEach(s, f, STORAGE_KEYS)

\* the exported document: JSON.stringify(data, null, 2), or null
storageUtils_exportData(s, f) ==
  LET h == chatHistory_load(s, f)
      m == chatMessages_loadAll(s, f)
      g == appSettings_load(s, f) IN
    IF h.threw \/ m.threw \/ g.threw THEN Ok(s, Null)
    ELSE Ok(s, JsonStringify(Obj([chatHistory |-> h.ret,
                                  chatMessages |-> m.ret,
                                  settings |-> g.ret,
                                  exportTimestamp |-> Num(Now)])))

\* JSON.parse(jsonData) of a document; JSON.parse(null) is null
ParseDocument(jsonData) ==
  IF jsonData = Null THEN [ok |-> TRUE, val |-> Null] ELSE JsonParse(jsonData)

\* variant of importData that never writes the chatMessages section
storageUtils_importDataNoMessages(s, f, jsonData) ==
  LET p == ParseDocument(jsonData) IN
    IF ~p.ok THEN Ok(s, Bool(FALSE))
    ELSE IF PropThrows(p.val) THEN Ok(s, Bool(FALSE))
    ELSE LET data == p.val
             r1 == IF Truthy(Prop(data, "chatHistory"))
                     THEN chatHistory_save(s, f, Prop(data, "chatHistory"))
                     ELSE Ok(s, Undefined)
             r3 == IF Truthy(Prop(data, "settings"))
                     THEN appSettings_save(r1.store, f, Prop(data, "settings"))
                     ELSE Ok(r1.store, Undefined) IN
           After(r1.wfail \/ r3.wfail, Ok(r3.store, Bool(TRUE)))

\* variant of importData that gives up at the first section it cannot write
storageUtils_importDataStopsOnFailure(s, f, jsonData) ==
  LET p == ParseDocument(jsonData) IN
    IF ~p.ok THEN Ok(s, Bool(FALSE))
    ELSE IF PropThrows(p.val) THEN Ok(s, Bool(FALSE))
    ELSE LET data == p.val
             r1 == IF Truthy(Prop(data, "chatHistory"))
                     THEN chatHistory_save(s, f, Prop(data, "chatHistory"))
                     ELSE Ok(s, Undefined)
             r2 == IF Truthy(Prop(data, "chatMessages")) /\ ~r1.wfail
                     THEN safeJSONStringify(r1.store, f, CHAT_MESSAGES,
                                            Prop(data, "chatMessages"))
                     ELSE Ok(r1.store, Undefined)
             r3 == IF Truthy(Prop(data, "settings")) /\ ~r1.wfail /\ ~r2.wfail
                     THEN appSettings_save(r2.store, f, Prop(data, "settings"))
                     ELSE Ok(r2.store, Undefined) IN
           After(r1.wfail \/ r2.wfail \/ r3.wfail, Ok(r3.store, Bool(TRUE)))

storageUtils_importData(s, f, jsonData) ==
  LET p == ParseDocument(jsonData) IN
    IF ~p.ok THEN Ok(s, Bool(FALSE))
    ELSE IF PropThrows(p.val) THEN Ok(s, Bool(FALSE))
    ELSE LET data == p.val
             r1 == IF Truthy(Prop(data, "chatHistory"))
                     THEN chatHistory_save(s, f, Prop(data, "chatHistory"))
                     ELSE Ok(s, Undefined)
             r2 == IF Truthy(Prop(data, "chatMessages"))
                     THEN safeJSONStringify(r1.store, f, CHAT_MESSAGES,
                                            Prop(data, "chatMessages"))
                     ELSE Ok(r1.store, Undefined)
             r3 == IF Truthy(Prop(data, "settings"))
                     THEN appSettings_save(r2.store, f, Prop(data, "settings"))
                     ELSE Ok(r2.store, Undefined) IN
           After(r1.wfail \/ r2.wfail \/ r3.wfail, Ok(r3.store, Bool(TRUE)))

\* ------------------------------------------------------------------------
\* Store: inputs
\* ------------------------------------------------------------------------

ChatRec(i, title) == Obj([id |-> Num(i), title |-> Str(title)])

\* the records addChat is called with: chat 1 under two titles
Chats == { ChatRec(1, "a"), ChatRec(1, "b"), ChatRec(2, "a"), ChatRec(3, "a") }

\* a message that carries no timestamp yet; once loaded and saved again it
\* carries the instant restoreDateObjects gave it
MsgUndated == Obj([id |-> Num(1)])
MsgInputs  == {MsgUndated}

\* the lists the application saves for a chat
MessageLists == { <<>>, <<MsgUndated>> }

\* the chat-history lists the application saves
SavedHistories == { <<>>, <<ChatRec(2, "a"), ChatRec(1, "b")>> }

ChatPatches    == { Obj([title |-> Str("a")]) }
MessagePatches == { Obj([timestamp |-> DateObj(Now)]) }

SettingsInputs ==
  { Obj([selectedChatId |-> Num(1), theme |-> Str("auto"),
         lastActiveTimestamp |-> Num(Now)]) }

\* documents handed to importData besides a document just exported
DocWrongShape ==
  Text(Obj([chatHistory |-> Num(5),
            chatMessages |-> Obj([k \in {"1"} |-> Arr(<<Null>>)])]))
DocHistoryOnly == Text(Obj([chatHistory |-> Arr(<<ChatRec(1, "a")>>)]))
\* a document with the three sections
DocFull ==
  Text(Obj([chatHistory |-> Arr(<<ChatRec(1, "b")>>),
            chatMessages |-> Obj([k \in {"1"} |-> Arr(<<Obj([id |-> Num(1)])>>)]),
            settings |-> Obj([selectedChatId |-> Num(1), theme |-> Str("auto"),
                              lastActiveTimestamp |-> Num(1)])]))
ImportDocs == {Garbage, Text(Null), DocWrongShape, DocHistoryOnly, DocFull}

\* what another script or the user may leave under a key
CorruptTexts == {Garbage, Text(Null)}

\* the substrate fails on one key, for one kind of access, during a call
Faults ==
  {NoFault}
    \cup { [rd |-> {k}, wr |-> {}, rm |-> {}] : k \in StorageKeys }
    \cup { [rd |-> {}, wr |-> {k}, rm |-> {}] : k \in AllKeys }
    \cup { [rd |-> {}, wr |-> {}, rm |-> {k}] : k \in StorageKeys }

\* the plans of F that differ from NoFault only on accesses a call makes:
\* it reads the keys R, writes the keys W and removes the keys D
On(F, R, W, D) ==
  { f \in F : f.rd \subseteq R /\ f.wr \subseteq W /\ f.rm \subseteq D }

\* the number of messages stored, over all chats
RECURSIVE SumLen(_, _)
SumLen(fields, keys) ==
  IF keys = {} THEN 0
  ELSE LET k == CHOOSE x \in keys : TRUE IN
    (IF fields[k].t = "arr" THEN Len(fields[k].items) ELSE 0)
      + SumLen(fields, keys \ {k})

StoredMessages(s) ==
  LET a == safeJSONParse(s[CHAT_MESSAGES], Obj(EmptyFields)) IN
    IF a.t = "obj" THEN SumLen(a.fields, DOMAIN a.fields) ELSE 0

EmptyStore == [k \in AllKeys |-> Absent]

\* what the calls of a specification are made with: the fault plans of the
\* substrate, the records of addChat, the chat ids of the chat-history calls,
\* the chat ids of the message calls and the values of selectedChatId
Reliable == [faults |-> {NoFault}, chats |-> Chats, ids |-> {1, 2, 3},
             mids |-> {1, 2}, sel |-> {Num(1)}]
Faulty   == [faults |-> Faults, chats |-> {ChatRec(1, "b")}, ids |-> {1},
             mids |-> {1}, sel |-> {Num(1)}]

\* ------------------------------------------------------------------------
\* Store: state machine.  Each action is one call; F is the set of fault
\* plans the substrate may follow during the call.
\* ------------------------------------------------------------------------

InitStore ==
  /\ ls = EmptyStore
  /\ lastOp = [name |-> "none", id |-> Undefined, arg |-> Undefined]
  /\ ret = Undefined
  /\ threw = FALSE
  /\ writeFailed = FALSE
  /\ fresh = EmptyStore

Called(r, name, id, arg) ==
  /\ ls' = r.store
  /\ lastOp' = [name |-> name, id |-> id, arg |-> arg]
  /\ ret' = r.ret
  /\ threw' = r.threw
  /\ writeFailed' = r.wfail
  /\ fresh' = EmptyStore
  /\ UNCHANGED otherThanStore

HistorySave(P) ==
  \E f \in On(P.faults, {}, {CHAT_HISTORY}, {}), h \in SavedHistories :
    Called(chatHistory_save(ls, f, Arr(h)), "chatHistory.save", Undefined, Arr(h))

HistoryLoad(P) ==
  \E f \in On(P.faults, {CHAT_HISTORY}, {}, {}) :
    Called(chatHistory_load(ls, f), "chatHistory.load", Undefined, Undefined)

HistoryAddChat(P) ==
  \E f \in On(P.faults, {CHAT_HISTORY}, {CHAT_HISTORY}, {}), c \in P.chats :
    Called(chatHistory_addChat(ls, f, c), "addChat", c.fields.id, c)

HistoryUpdateChat(P) ==
  \E f \in On(P.faults, {CHAT_HISTORY}, {CHAT_HISTORY}, {}), i \in P.ids, u \in ChatPatches :
    Called(chatHistory_updateChat(ls, f, Num(i), u), "updateChat", Num(i), u)

\* updateChat with a patch that carries an id field
HistoryRekeyChat(P) ==
  /\ chatHistory_load(ls, NoFault).ret.t = "arr"
  /\ Len(chatHistory_load(ls, NoFault).ret.items) <= MaxHistory
  /\ \E i \in P.ids, j \in P.ids :
    Called(chatHistory_updateChat(ls, NoFault, Num(i), Obj([id |-> Num(j)])),
           "updateChat", Num(i), Obj([id |-> Num(j)]))

HistoryDeleteChat(P) ==
  \E f \in On(P.faults, {CHAT_HISTORY, CHAT_MESSAGES}, {CHAT_HISTORY, CHAT_MESSAGES}, {}), i \in P.ids :
    Called(chatHistory_deleteChat(ls, f, Num(i)), "deleteChat", Num(i), Undefined)

HistoryClear(P) ==
  \E f \in On(P.faults, {}, {}, {CHAT_HISTORY, CHAT_MESSAGES}) :
    Called(chatHistory_clear(ls, f), "chatHistory.clear", Undefined, Undefined)

MessagesSave(P) ==
  \E f \in On(P.faults, {CHAT_MESSAGES}, {CHAT_MESSAGES}, {}), i \in P.mids, m \in MessageLists :
    /\ StoredMessages(ls) + Len(m) <= MaxMsgs
    /\ Called(chatMessages_save(ls, f, Num(i), Arr(m)), "chatMessages.save", Num(i), Arr(m))

MessagesLoad(P) ==
  \E f \in On(P.faults, {CHAT_MESSAGES}, {}, {}), i \in P.mids :
    Called(chatMessages_load(ls, f, Num(i)), "chatMessages.load", Num(i), Undefined)

MessagesLoadAll(P) ==
  \E f \in On(P.faults, {CHAT_MESSAGES}, {}, {}) :
    Called(chatMessages_loadAll(ls, f), "loadAll", Undefined, Undefined)

MessagesAdd(P) ==
  \E f \in On(P.faults, {CHAT_MESSAGES}, {CHAT_MESSAGES}, {}), i \in P.mids, m \in MsgInputs :
      /\ StoredMessages(ls) < MaxMsgs
      /\ Called(chatMessages_addMessage(ls, f, Num(i), m), "addMessage", Num(i), m)

MessagesUpdate(P) ==
  \E f \in On(P.faults, {CHAT_MESSAGES}, {CHAT_MESSAGES}, {}), i \in P.mids, m \in {1, 2}, u \in MessagePatches :
    Called(chatMessages_updateMessage(ls, f, Num(i), Num(m), u),
           "updateMessage", Num(i), Num(m))

MessagesDelete(P) ==
  \E f \in On(P.faults, {CHAT_MESSAGES}, {CHAT_MESSAGES}, {}), i \in P.mids :
    Called(chatMessages_delete(ls, f, Num(i)), "chatMessages.delete", Num(i), Undefined)

MessagesClear(P) ==
  \E f \in On(P.faults, {}, {}, {CHAT_MESSAGES}) :
    Called(chatMessages_clear(ls, f), "chatMessages.clear", Undefined, Undefined)

SettingsSave(P) ==
  \E f \in On(P.faults, {}, {APP_SETTINGS}, {}), g \in SettingsInputs :
    Called(appSettings_save(ls, f, g), "appSettings.save", Undefined, g)

SettingsLoad(P) ==
  \E f \in On(P.faults, {APP_SETTINGS}, {}, {}) :
    Called(appSettings_load(ls, f), "appSettings.load", Undefined, Undefined)

SettingsUpdate(P) ==
  \E f \in On(P.faults, {APP_SETTINGS}, {APP_SETTINGS}, {}), v \in P.sel :
    Called(appSettings_update(ls, f, "selectedChatId", v),
           "appSettings.update", Undefined, v)

UtilsGetStorageInfo(P) ==
  \E f \in On(P.faults, StorageKeys, {}, {}) :
    Called(storageUtils_getStorageInfo(ls, f), "getStorageInfo", Undefined, Undefined)

UtilsIsAvailable(P) ==
  \E f \in On(P.faults, {}, {TEST_KEY}, {TEST_KEY}) :
    Called(storageUtils_isAvailable(ls, f), "isAvailable", Undefined, Undefined)

UtilsClearAll(P) ==
  \E f \in On(P.faults, {}, {}, StorageKeys) :
    Called(storageUtils_clearAll(ls, f), "clearAll", Undefined, Undefined)

UtilsExportData(P) ==
  \E f \in On(P.faults, StorageKeys, {}, {}) :
    Called(storageUtils_exportData(ls, f), "exportData", Undefined, Undefined)

UtilsImportData(P) ==
  \E f \in On(P.faults, {}, StorageKeys, {}), d \in ImportDocs :
    Called(storageUtils_importData(ls, f, d), "importData", Undefined, d)

\* the document just exported is imported by a fresh installation, whose
\* localStorage is empty; fresh is the localStorage of that installation
UtilsImportIntoFresh(P) ==
  /\ lastOp.name = "exportData"
  /\ \E f \in On(P.faults, {}, StorageKeys, {}) :
       LET r == storageUtils_importData(EmptyStore, f, ret) IN
         /\ fresh' = r.store
         /\ lastOp' = [name |-> "importFresh", id |-> Undefined, arg |-> ret]
         /\ ret' = r.ret
         /\ threw' = r.threw
         /\ writeFailed' = r.wfail
         /\ UNCHANGED ls
  /\ UNCHANGED otherThanStore

\* another script of the page, or the user, overwrites a key
Corrupt ==
  /\ \E k \in StorageKeys, x \in CorruptTexts :
       /\ ls' = [ls EXCEPT ![k] = x]
       /\ lastOp' = [name |-> "corrupt", id |-> Undefined, arg |-> Undefined]
  /\ ret' = Undefined
  /\ threw' = FALSE
  /\ writeFailed' = FALSE
  /\ fresh' = EmptyStore
  /\ UNCHANGED otherThanStore

StoreCalls(P) ==
  \/ HistorySave(P)
  \/ HistoryLoad(P)
  \/ HistoryAddChat(P)
  \/ HistoryUpdateChat(P)
  \/ HistoryDeleteChat(P)
  \/ HistoryClear(P)
  \/ MessagesSave(P)
  \/ MessagesLoad(P)
  \/ MessagesLoadAll(P)
  \/ MessagesAdd(P)
  \/ MessagesUpdate(P)
  \/ MessagesDelete(P)
  \/ MessagesClear(P)
  \/ SettingsSave(P)
  \/ SettingsLoad(P)
  \/ SettingsUpdate(P)
  \/ UtilsGetStorageInfo(P)
  \/ UtilsIsAvailable(P)
  \/ UtilsClearAll(P)
  \/ UtilsExportData(P)
  \/ UtilsImportData(P)
  \/ UtilsImportIntoFresh(P)

\* the substrate never fails and nothing else writes the keys
NextStore == StoreCalls(Reliable)

\* the substrate may fail and the keys may be overwritten from outside
NextStoreFaulty == StoreCalls(Faulty) \/ Corrupt

\* addChat, updateChat and deleteChat with any ids and patches, from an empty
\* store
NextHistoryIds ==
  \/ HistoryAddChat(Reliable)
  \/ HistoryUpdateChat(Reliable)
  \/ HistoryRekeyChat(Reliable)
  \/ HistoryDeleteChat(Reliable)

\* ------------------------------------------------------------------------
\* Session: one ChatInterfaceView with its useLLM hook and its ChatInput.
\* A state update made while an event or a continuation runs is committed
\* before the next event is handled, so the closures of the next event see it.
\* ------------------------------------------------------------------------

\* what the user may have typed when the box is submitted
InputValues == { <<SP>>, <<"1">> }

\* a sendMessageStream call that has not settled
InFlight(call) == call.pc \in {"checking", "fetching", "streaming"}

InFlightCalls == { i \in DOMAIN calls : InFlight(calls[i]) }

InitSession ==
  /\ isInitialized = FALSE
  /\ isLoading = FALSE
  /\ initPc = "idle"
  /\ calls = <<>>
  /\ abortControllerRef = 0
  /\ requests = 0
  /\ messages = <<>>
  /\ submits = 0
  /\ lastSubmit = "none"

\* variant of the guard of handleSubmit that does not look at isLoading
handleSubmitIgnoresLoading(inputValue, loading) == Trim(inputValue) # <<>>

\* handleSubmit goes on: if (!inputValue.trim() || isLoading) return;
handleSubmitAccepts(inputValue, loading) ==
  Trim(inputValue) # <<>> /\ ~loading

\* the two messages handleSendMessage appends for the call it starts
NewMessages(call) ==
  << [type |-> "user", call |-> call, content |-> 0, isError |-> FALSE],
     [type |-> "assistant", call |-> call, content |-> 0, isError |-> FALSE] >>

\* onChunk: the assistant message of the call takes the answer so far
WithAnswer(msgs, call, content) ==
  [k \in DOMAIN msgs |->
     IF msgs[k].type = "assistant" /\ msgs[k].call = call
       THEN [msgs[k] EXCEPT !.content = content]
       ELSE msgs[k]]

\* the catch of handleSendMessage: the assistant message of the call becomes
\* the error text
WithError(msgs, call) ==
  [k \in DOMAIN msgs |->
     IF msgs[k].type = "assistant" /\ msgs[k].call = call
       THEN [msgs[k] EXCEPT !.content = 0, !.isError = TRUE]
       ELSE msgs[k]]

\* sendMessageStream settles: "resolved" with a result, "null" after an
\* AbortError, "threw" after any other error; its finally block runs, then
\* handleSendMessage goes on
Settle(i, outcome, aborted) ==
  /\ calls' = [calls EXCEPT ![i].pc = outcome, ![i].aborted = aborted]
  /\ isLoading' = FALSE
  /\ abortControllerRef' = 0
  /\ messages' = IF outcome = "threw" THEN WithError(messages, i) ELSE messages

\* the mount effect of useLLM calls initialize()
InitializeStart ==
  /\ initPc = "idle"
  /\ initPc' = "running"
  /\ isLoading' = TRUE
  /\ UNCHANGED <<isInitialized, calls, abortControllerRef, requests, messages,
                 submits, lastSubmit>>
  /\ UNCHANGED otherThanSession

\* llmService.initialize() settles: setIsInitialized(true) on success, no
\* update of isInitialized otherwise
InitializeDone ==
  /\ initPc = "running"
  /\ initPc' = "done"
  /\ \E success \in BOOLEAN : isInitialized' = (isInitialized \/ success)
  /\ isLoading' = FALSE
  /\ UNCHANGED <<calls, abortControllerRef, requests, messages, submits,
                 lastSubmit>>
  /\ UNCHANGED otherThanSession

\* the user submits the box: ChatInput.handleSubmit, then handleSendMessage
\* up to the first await of sendMessageStream
Submit ==
  /\ submits < MaxSubmits
  /\ submits' = submits + 1
  /\ \E inputValue \in InputValues :
       IF ~handleSubmitAccepts(inputValue, isLoading)
         THEN /\ lastSubmit' = IF Trim(inputValue) = <<>> THEN "blank" ELSE "busy"
              /\ UNCHANGED <<isLoading, calls, abortControllerRef, messages>>
       ELSE IF ~isInitialized
         THEN /\ lastSubmit' = "uninitialized"
              /\ UNCHANGED <<isLoading, calls, abortControllerRef, messages>>
       ELSE /\ lastSubmit' = "accepted"
            /\ messages' = messages \o NewMessages(Len(calls) + 1)
            /\ calls' = Append(calls,
                          [pc |-> "checking", aborted |-> FALSE, chunks |-> 0])
            /\ abortControllerRef' = Len(calls) + 1
            /\ isLoading' = TRUE
  /\ UNCHANGED <<isInitialized, initPc, requests>>
  /\ UNCHANGED otherThanSession

\* isModelAvailable settles; its request does not carry the abort signal.
\* An available model leads to fetch(.., {signal}), which rejects at once
\* with an AbortError when the signal is already aborted
AvailabilityChecked ==
  /\ \E i \in DOMAIN calls, available \in BOOLEAN :
       /\ calls[i].pc = "checking"
       /\ IF ~available
            THEN Settle(i, "threw", calls[i].aborted) /\ UNCHANGED requests
          ELSE IF calls[i].aborted
            THEN Settle(i, "null", TRUE) /\ UNCHANGED requests
          ELSE /\ calls' = [calls EXCEPT ![i].pc = "fetching"]
               /\ requests' = requests + 1
               /\ UNCHANGED <<isLoading, abortControllerRef, messages>>
  /\ UNCHANGED <<isInitialized, initPc, submits, lastSubmit>>
  /\ UNCHANGED otherThanSession

\* the fetch of /api/chat settles: a response with an ok status, a response
\* with another status, or a transport error
FetchSettles ==
  /\ \E i \in DOMAIN calls, outcome \in {"ok", "status", "network"} :
       /\ calls[i].pc = "fetching"
       /\ IF outcome = "ok"
            THEN /\ calls' = [calls EXCEPT ![i].pc = "streaming"]
                 /\ UNCHANGED <<isLoading, abortControllerRef, messages>>
            ELSE Settle(i, "threw", FALSE)
  /\ UNCHANGED <<isInitialized, initPc, requests, submits, lastSubmit>>
  /\ UNCHANGED otherThanSession

\* the stream yields a record: one with content, or the final one
StreamChunk ==
  /\ \E i \in DOMAIN calls, done \in BOOLEAN :
       /\ calls[i].pc = "streaming"
       /\ IF done
            THEN Settle(i, "resolved", FALSE)
            ELSE /\ calls[i].chunks < MaxChunks
                 /\ calls' = [calls EXCEPT ![i].chunks = @ + 1]
                 /\ messages' = WithAnswer(messages, i, calls[i].chunks + 1)
                 /\ UNCHANGED <<isLoading, abortControllerRef>>
  /\ UNCHANGED <<isInitialized, initPc, requests, submits, lastSubmit>>
  /\ UNCHANGED otherThanSession

\* the stream ends without a final record, or reader.read() rejects
StreamEnds ==
  /\ \E i \in DOMAIN calls, outcome \in {"resolved", "threw"} :
       /\ calls[i].pc = "streaming"
       /\ Settle(i, outcome, FALSE)
  /\ UNCHANGED <<isInitialized, initPc, requests, submits, lastSubmit>>
  /\ UNCHANGED otherThanSession

\* abortRequest(): a pending fetch or read rejects with an AbortError, which
\* sendMessageStream turns into null; the availability check goes on
AbortRequest ==
  /\ abortControllerRef # 0
  /\ LET i == abortControllerRef IN
       IF calls[i].pc \in {"fetching", "streaming"}
         THEN Settle(i, "null", TRUE)
         ELSE /\ calls' = [calls EXCEPT ![i].aborted = TRUE]
              /\ UNCHANGED <<isLoading, abortControllerRef, messages>>
  /\ UNCHANGED <<isInitialized, initPc, requests, submits, lastSubmit>>
  /\ UNCHANGED otherThanSession

NextSession ==
  \/ InitializeStart
  \/ InitializeDone
  \/ Submit
  \/ AvailabilityChecked
  \/ FetchSettles
  \/ StreamChunk
  \/ StreamEnds
  \/ AbortRequest

\* ------------------------------------------------------------------------
\* useLLM called directly: the component that owns the hook may call
\* initialize, sendMessage, sendMessageStream, changeModel and abortRequest
\* whenever it likes; the hook itself only tests isInitialized
\* ------------------------------------------------------------------------

InitHook == modelChanges = 0

\* initialize() is called again once the call of the mount effect settled
InitializeAgain ==
  /\ initPc = "done"
  /\ initPc' = "running"
  /\ isLoading' = TRUE
  /\ UNCHANGED <<isInitialized, calls, abortControllerRef, requests, messages,
                 submits, lastSubmit>>
  /\ UNCHANGED otherThanSession

\* sendMessage or sendMessageStream is called and runs to its first await:
\* either throws when isInitialized is false, else sets isLoading, puts a new
\* controller in the ref and awaits llmService.sendMessage
HookSend ==
  /\ Len(calls) < MaxHookCalls
  /\ isInitialized
  /\ calls' = Append(calls, [pc |-> "checking", aborted |-> FALSE, chunks |-> 0])
  /\ abortControllerRef' = Len(calls) + 1
  /\ isLoading' = TRUE
  /\ UNCHANGED <<isInitialized, initPc, requests, messages, submits, lastSubmit>>
  /\ UNCHANGED otherThanSession

\* changeModel(modelName) is called, the mount effect having run, and awaits
\* llmService.setModel
ChangeModelStart ==
  /\ initPc # "idle"
  /\ modelChanges < MaxModelChanges
  /\ modelChanges' = modelChanges + 1
  /\ isLoading' = TRUE
  /\ UNCHANGED <<isInitialized, initPc, calls, abortControllerRef, requests,
                 messages, submits, lastSubmit>>
  /\ UNCHANGED otherThanHook

\* llmService.setModel settles, either way: the finally block of changeModel
ChangeModelDone ==
  /\ modelChanges > 0
  /\ modelChanges' = modelChanges - 1
  /\ isLoading' = FALSE
  /\ UNCHANGED <<isInitialized, initPc, calls, abortControllerRef, requests,
                 messages, submits, lastSubmit>>
  /\ UNCHANGED otherThanHook

NextHook ==
  \/ InitializeStart
  \/ InitializeDone
  \/ InitializeAgain
  \/ HookSend
  \/ ChangeModelStart
  \/ ChangeModelDone
  \/ AvailabilityChecked
  \/ FetchSettles
  \/ StreamChunk
  \/ StreamEnds
  \/ AbortRequest

\* ------------------------------------------------------------------------
\* Model server client: OllamaClient.generateChatCompletion
\* ------------------------------------------------------------------------

\* this.config.defaultModel
DefaultModel == "qwen3:14b"

\* model names a caller may ask for and a server may list
ModelNames == {DefaultModel, "llama3"}

Roles == {"system", "user", "assistant"}

\* the message lists of a caller; the content of a message tells its place
CallerMessages ==
  UNION { { [k \in 1..n |-> [role |-> r[k], content |-> k]] :
            r \in [1..n -> Roles] } : n \in 0..MaxCallerMessages }

\* the system message generateChatCompletion builds
SystemMessage == [role |-> "system", content |-> 0]

NoRequest == [sent |-> FALSE]

\* what getAvailableModels may give: the names listed, or an error
ListingFailed == [ok |-> FALSE, names |-> {}]
Listings == {ListingFailed} \cup { [ok |-> TRUE, names |-> n] : n \in SUBSET ModelNames }

\* const modelName = options.model || this.config.defaultModel
EffectiveModel(modelOption) ==
  IF Truthy(modelOption) THEN modelOption.s ELSE DefaultModel

\* variant of isModelAvailable that takes a failed listing for a yes
isModelAvailableUnlessListed(listing, modelName) ==
  ~listing.ok \/ modelName \in listing.names

\* isModelAvailable(modelName), given what getAvailableModels gave
isModelAvailable(listing, modelName) ==
  listing.ok /\ modelName \in listing.names

\* variant of the message processing that always adds the system message
processedMessagesAlwaysInjected(msgs) == <<SystemMessage>> \o msgs

\* const processedMessages = hasSystemMessage ? messages : [systemMessage, ...messages]
processedMessages(msgs) ==
  IF \E k \in 1..Len(msgs) : msgs[k].role = "system"
    THEN msgs
    ELSE <<SystemMessage>> \o msgs

InitClient ==
  /\ gcPc = "idle"
  /\ gcMessages = <<>>
  /\ gcModelOption = Undefined
  /\ gcListing = ListingFailed
  /\ gcRequest = NoRequest

\* generateChatCompletion(messages, options) is called and awaits
\* isModelAvailable
GenerateChatCompletion ==
  /\ gcPc = "idle"
  /\ gcPc' = "listing"
  /\ gcMessages' \in CallerMessages
  /\ gcModelOption' \in {Undefined, Str("")} \cup { Str(n) : n \in ModelNames }
  /\ UNCHANGED <<gcListing, gcRequest>>
  /\ UNCHANGED otherThanClient

\* the listing settles: the model is missing and the call throws, or the
\* request body is built and posted
ModelsListed ==
  /\ gcPc = "listing"
  /\ \E listing \in Listings :
       /\ gcListing' = listing
       /\ IF isModelAvailable(listing, EffectiveModel(gcModelOption))
            THEN /\ gcPc' = "posting"
                 /\ gcRequest' = [sent |-> TRUE,
                                  model |-> EffectiveModel(gcModelOption),
                                  messages |-> processedMessages(gcMessages)]
            ELSE /\ gcPc' = "failed"
                 /\ UNCHANGED gcRequest
  /\ UNCHANGED <<gcMessages, gcModelOption>>
  /\ UNCHANGED otherThanClient

\* the fetch of /api/chat settles: an ok response is returned, anything
\* else throws
ChatResponded ==
  /\ gcPc = "posting"
  /\ \E ok \in BOOLEAN : gcPc' = IF ok THEN "returned" ELSE "failed"
  /\ UNCHANGED <<gcMessages, gcModelOption, gcListing, gcRequest>>
  /\ UNCHANGED otherThanClient

NextClient ==
  \/ GenerateChatCompletion
  \/ ModelsListed
  \/ ChatResponded

\* ------------------------------------------------------------------------
\* Segmenter: parseThinkingAndAnswer and cleanContentForMainChat.
\* A text is a sequence of pieces: the characters "<", "/", ">", " ", "x",
\* "=", and the words "think", "answer", "analyzing", "ANALYZING", "THEREFORE"
\* and "ten" (a run of ten plain characters), each of which counts for its
\* number of characters.
\* ------------------------------------------------------------------------

OpenThink   == <<"<", "think", ">">>
CloseThink  == <<"<", "/", "think", ">">>
OpenAnswer  == <<"<", "answer", ">">>
CloseAnswer == <<"<", "/", "answer", ">">>

\* the content of one chunk of the stream
ContentChunks ==
  { OpenThink, CloseThink, OpenAnswer, CloseAnswer, <<"<">>, <<"think", ">">>,
    <<"x">>, <<SP>>, <<"=">>, <<"analyzing">>, <<"ten">> }

\* the phrases of answerIndicators and thinkingIndicators a text can hold
AnswerIndicators   == { <<"=">>, <<"therefore">> }
ThinkingIndicators == { <<"analyzing">> }

\* the content of one chunk of a stream that holds no tag
PlainChunks ==
  { <<"x">>, <<SP>>, <<"=">>, <<"analyzing">>, <<"ANALYZING">>, <<"THEREFORE">>,
    <<"ten">> }

\* String.prototype.toLowerCase
ToLower(text) ==
  [i \in 1..Len(text) |->
     CASE text[i] = "ANALYZING" -> "analyzing"
       [] text[i] = "THEREFORE" -> "therefore"
       [] OTHER -> text[i]]

\* content.length
RECURSIVE CharCount(_)
CharCount(text) ==
  IF text = <<>> THEN 0
  ELSE (CASE Head(text) = "think" -> 5
          [] Head(text) = "answer" -> 6
          [] Head(text) \in {"analyzing", "ANALYZING", "THEREFORE", "therefore"} -> 9
          [] Head(text) = "ten" -> 10
          [] OTHER -> 1) + CharCount(Tail(text))

\* pat occurs in text at position i
IsAt(text, i, pat) ==
  /\ i + Len(pat) - 1 <= Len(text)
  /\ SubSeq(text, i, i + Len(pat) - 1) = pat

\* text.indexOf(pat, from), 0 when there is none
RECURSIVE IndexOf(_, _, _)
IndexOf(text, pat, from) ==
  IF from + Len(pat) - 1 > Len(text) THEN 0
  ELSE IF IsAt(text, from, pat) THEN from
  ELSE IndexOf(text, pat, from + 1)

\* content.includes(pat)
Includes(text, pat) == IndexOf(text, pat, 1) # 0

\* variant of the match that runs to the last closing tag
MatchBetweenGreedy(text, open, close) ==
  LET i == IndexOf(text, open, 1)
      ends == { j \in 1..Len(text) : j >= i + Len(open) /\ IsAt(text, j, close) } IN
    IF i = 0 \/ ends = {} THEN [found |-> FALSE, group |-> <<>>]
    ELSE [found |-> TRUE,
          group |-> SubSeq(text, i + Len(open),
                           (CHOOSE j \in ends : \A k \in ends : k <= j) - 1)]

\* content.match(/open([\s\S]*?)close/): the leftmost opening tag that has a
\* closing tag after it is the first one, and the lazy group ends at the
\* first closing tag after it
MatchBetween(text, open, close) ==
  LET i == IndexOf(text, open, 1)
      j == IF i = 0 THEN 0 ELSE IndexOf(text, close, i + Len(open)) IN
    IF j = 0 THEN [found |-> FALSE, group |-> <<>>]
    ELSE [found |-> TRUE, group |-> SubSeq(text, i + Len(open), j - 1)]

\* content.match(/open([\s\S]*?)(?:close|$)/)
MatchPartial(text, open, close) ==
  LET i == IndexOf(text, open, 1)
      j == IF i = 0 THEN 0 ELSE IndexOf(text, close, i + Len(open)) IN
    IF i = 0 THEN [found |-> FALSE, group |-> <<>>]
    ELSE [found |-> TRUE,
          group |-> SubSeq(text, i + Len(open),
                           IF j = 0 THEN Len(text) ELSE j - 1)]

\* variant that looks for thinking indicators before answer indicators
HeuristicParseThinkingFirst(content) ==
  LET trimmedContent == Trim(content)
      lowerContent == ToLower(trimmedContent)
      allThinking == [thinking |-> trimmedContent, answer |-> <<>>]
      allAnswer   == [thinking |-> <<>>, answer |-> trimmedContent] IN
    IF CharCount(trimmedContent) < 20 THEN allThinking
    ELSE IF \E a \in ThinkingIndicators : Includes(lowerContent, a) THEN allThinking
    ELSE IF \E a \in AnswerIndicators : Includes(lowerContent, a) THEN allAnswer
    ELSE IF CharCount(trimmedContent) < 30 THEN allThinking
    ELSE allAnswer

\* the branch of parseThinkingAndAnswer for a text with no tag
HeuristicParse(content) ==
  LET trimmedContent == Trim(content)
      lowerContent == ToLower(trimmedContent)
      allThinking == [thinking |-> trimmedContent, answer |-> <<>>]
      allAnswer   == [thinking |-> <<>>, answer |-> trimmedContent] IN
    IF CharCount(trimmedContent) < 20 THEN allThinking
    ELSE IF \E a \in AnswerIndicators : Includes(lowerContent, a) THEN allAnswer
    ELSE IF \E a \in ThinkingIndicators : Includes(lowerContent, a) THEN allThinking
    ELSE IF CharCount(trimmedContent) < 30 THEN allThinking
    ELSE allAnswer

\* one side of the structured result: the full match, else the partial one
Section(content, open, close) ==
  LET full    == MatchBetween(content, open, close)
      partial == MatchPartial(content, open, close) IN
    Trim(IF full.found THEN full.group
         ELSE IF partial.found THEN partial.group ELSE <<>>)

parseThinkingAndAnswer(content) ==
  IF Includes(content, OpenThink) \/ Includes(content, OpenAnswer)
    THEN [thinking |-> Section(content, OpenThink, CloseThink),
          answer   |-> Section(content, OpenAnswer, CloseAnswer)]
    ELSE HeuristicParse(content)

\* text.replace(/<think>[\s\S]*?<\/think>/g, '') from position i on
RECURSIVE RemoveThinkBlocks(_, _)
RemoveThinkBlocks(text, i) ==
  IF i > Len(text) THEN <<>>
  ELSE LET j == IF IsAt(text, i, OpenThink)
                  THEN IndexOf(text, CloseThink, i + Len(OpenThink)) ELSE 0 IN
    IF j # 0 THEN RemoveThinkBlocks(text, j + Len(CloseThink))
    ELSE <<text[i]>> \o RemoveThinkBlocks(text, i + 1)

\* text.replace(/<\/?word>/g, '') from position i on, one pass
RECURSIVE RemoveTags(_, _, _, _)
RemoveTags(text, i, open, close) ==
  IF i > Len(text) THEN <<>>
  ELSE IF IsAt(text, i, open) THEN RemoveTags(text, i + Len(open), open, close)
  ELSE IF IsAt(text, i, close) THEN RemoveTags(text, i + Len(close), open, close)
  ELSE <<text[i]>> \o RemoveTags(text, i + 1, open, close)

\* cleanContentForMainChat(content): the three replacements in turn, then trim
cleanContentForMainChat(content) ==
  IF content = <<>> THEN <<>>
  ELSE Trim(RemoveTags(
              RemoveTags(RemoveThinkBlocks(content, 1), 1, OpenThink, CloseThink),
              1, OpenAnswer, CloseAnswer))

\* text.replace(/<[^>]*>/g, '') from position i on
RECURSIVE RemoveAnyTags(_, _)
RemoveAnyTags(text, i) ==
  IF i > Len(text) THEN <<>>
  ELSE LET j == IF text[i] = "<" THEN IndexOf(text, <<">">>, i + 1) ELSE 0 IN
    IF j # 0 THEN RemoveAnyTags(text, j + 1)
    ELSE <<text[i]>> \o RemoveAnyTags(text, i + 1)

\* text.replace(/\s+/g, ' ')
RECURSIVE CollapseSpace(_)
CollapseSpace(text) ==
  IF text = <<>> THEN <<>>
  ELSE IF Head(text) \in {SP, LF}
    THEN <<SP>> \o CollapseSpace(TrimLeft(text))
    ELSE <<Head(text)>> \o CollapseSpace(Tail(text))

\* cleanThinkingContent(content): the think tags twice, the other named
\* tags (none of which a text here can hold), any tag, white space, trim
cleanThinkingContent(content) ==
  IF content = <<>> THEN <<>>
  ELSE Trim(CollapseSpace(RemoveAnyTags(
         RemoveTags(RemoveTags(content, 1, OpenThink, CloseThink),
                    1, OpenThink, CloseThink), 1)))

\* the onChunk callback's thinking box: if (thinking) setCurrentThinking(...)
onChunkThinking(shown, thinking) ==
  IF thinking # <<>> THEN cleanThinkingContent(thinking) ELSE shown

InitSegmenter ==
  /\ currentThinking = <<>>
  /\ fullContent = <<>>
  /\ contentChunks = 0
  /\ parsed = [thinking |-> <<>>, answer |-> <<>>]
  /\ liveContent = <<>>

\* a record with content arrives: sendMessageStream accumulates it and parses
\* the whole text, the onChunk callback of handleSendMessage sets the content
\* of the assistant message
StreamContent ==
  /\ contentChunks < MaxContentChunks
  /\ \E chunk \in ContentChunks :
       /\ fullContent' = fullContent \o chunk
       /\ parsed' = parseThinkingAndAnswer(fullContent \o chunk)
       /\ liveContent' =
            cleanContentForMainChat(parseThinkingAndAnswer(fullContent \o chunk).answer)
       /\ currentThinking' =
            onChunkThinking(currentThinking,
                            parseThinkingAndAnswer(fullContent \o chunk).thinking)
  /\ contentChunks' = contentChunks + 1
  /\ UNCHANGED otherThanSegmenter

NextSegmenter == StreamContent

\* the same step on a stream whose chunks hold no tag
StreamPlain ==
  /\ contentChunks < MaxContentChunks
  /\ \E chunk \in PlainChunks :
       /\ fullContent' = fullContent \o chunk
       /\ parsed' = parseThinkingAndAnswer(fullContent \o chunk)
       /\ liveContent' =
            cleanContentForMainChat(parseThinkingAndAnswer(fullContent \o chunk).answer)
       /\ currentThinking' =
            onChunkThinking(currentThinking,
                            parseThinkingAndAnswer(fullContent \o chunk).thinking)
  /\ contentChunks' = contentChunks + 1
  /\ UNCHANGED otherThanSegmenter

NextPlain == StreamPlain

\* ------------------------------------------------------------------------
\* View: what ChatInterfaceView restores from the store when it mounts
\* ------------------------------------------------------------------------

\* useChatPersistence.loadChatHistory: [] when the store call throws
loadChatHistory(s, f) ==
  LET l == chatHistory_load(s, f) IN
    IF l.threw THEN Arr(<<>>) ELSE l.ret

\* useChatPersistence.loadSettings: { selectedChatId: null } when it throws
loadSettings(s, f) ==
  LET l == appSettings_load(s, f) IN
    IF l.threw THEN Obj([selectedChatId |-> Null]) ELSE l.ret

\* useChatPersistence.loadChatMessages: [] when the store call throws
loadChatMessages(s, f, chatId) ==
  LET l == chatMessages_load(s, f, chatId) IN
    IF l.threw THEN Arr(<<>>) ELSE l.ret

\* useChatPersistence.clearAllData: true when chatHistoryStorage.clear
\* returned a truthy value, false when it threw or returned a falsy one
clearAllData(s, f) ==
  LET c == chatHistory_clear(s, f) IN
    IF c.threw \/ ~Truthy(c.ret)
      THEN [store |-> c.store, ret |-> Bool(FALSE), threw |-> FALSE,
            wfail |-> c.wfail]
      ELSE [store |-> c.store, ret |-> Bool(TRUE), threw |-> FALSE,
            wfail |-> c.wfail]

PersistenceClearAllData(P) ==
  \E f \in On(P.faults, {}, {}, {CHAT_HISTORY, CHAT_MESSAGES}) :
    Called(clearAllData(ls, f), "clearAllData", Undefined, Undefined)

\* chats, messages and a selection are stored, and everything is cleared
NextClearAll ==
  \/ HistoryAddChat(Reliable)
  \/ MessagesAdd(Reliable)
  \/ SettingsUpdate(Reliable)
  \/ PersistenceClearAllData(Reliable)

InitView ==
  /\ viewPc = "unmounted"
  /\ selectedChat = Null
  /\ viewChatHistory = Arr(<<>>)
  /\ viewMessages = Arr(<<>>)

\* the load-on-mount effect, once isStorageLoaded is true
ViewMount ==
  /\ viewPc = "unmounted"
  /\ LET f == NoFault
         settings == loadSettings(ls, f) IN
         /\ viewChatHistory' = loadChatHistory(ls, f)
         /\ IF PropThrows(settings)
              \* settings.selectedChatId of null: the effect throws
              THEN /\ viewPc' = "crashed"
                   /\ UNCHANGED <<selectedChat, viewMessages>>
            ELSE IF Truthy(Prop(settings, "selectedChatId"))
              THEN /\ viewPc' = "loaded"
                   /\ selectedChat' = Prop(settings, "selectedChatId")
                   /\ viewMessages' =
                        loadChatMessages(ls, f, Prop(settings, "selectedChatId"))
            ELSE /\ viewPc' = "loaded"
                 /\ UNCHANGED <<selectedChat, viewMessages>>
  /\ UNCHANGED otherThanView

\* what earlier sessions left in the store, then the mount
NextView ==
  \/ /\ viewPc = "unmounted"
     /\ \/ HistoryAddChat(Reliable)
        \/ HistoryDeleteChat(Reliable)
        \/ MessagesAdd(Reliable)
        \/ SettingsUpdate(Reliable)
        \/ UtilsImportData(Reliable)
        \/ Corrupt
  \/ ViewMount

\* ------------------------------------------------------------------------
\* Pull: pullModel and the progress feed it reads (config.js 288-330)
\* ------------------------------------------------------------------------

InitPull ==
  /\ pullPc = "idle"
  /\ pullSent = <<>>
  /\ pullWire = <<>>
  /\ pullClosed = FALSE
  /\ pullProgress = <<>>
  /\ pullLocked = FALSE
  /\ pullResult = "none"

\* the POST to /api/pull resolves: not ok throws into the catch, else
\* response.body.getReader()
PullModel ==
  /\ pullPc = "idle"
  /\ \E ok \in BOOLEAN :
       IF ok THEN /\ pullPc' = "reading"
                  /\ pullLocked' = TRUE
                  /\ UNCHANGED pullResult
             ELSE /\ pullPc' = "failed"
                  /\ pullResult' = "failure"
                  /\ UNCHANGED pullLocked
  /\ UNCHANGED <<pullSent, pullWire, pullClosed, pullProgress>>
  /\ UNCHANGED otherThanPull

\* the server writes one progress line and its line feed
PullServerWriteLine ==
  /\ pullPc = "reading"
  /\ ~pullClosed
  /\ Len(pullSent) < MaxLines
  /\ \E l \in Lines :
       /\ pullWire' = pullWire \o l \o <<LF>>
       /\ pullSent' = Append(pullSent, l)
  /\ UNCHANGED <<pullPc, pullClosed, pullProgress, pullLocked, pullResult>>
  /\ UNCHANGED otherThanPull

\* the server ends the feed
PullServerClose ==
  /\ pullPc = "reading"
  /\ ~pullClosed
  /\ pullClosed' = TRUE
  /\ UNCHANGED <<pullPc, pullSent, pullWire, pullProgress, pullLocked, pullResult>>
  /\ UNCHANGED otherThanPull

\* reader.read() resolves with the next k characters: each line that parses
\* goes to onProgress, the others are skipped
PullReadChunk ==
  /\ pullPc = "reading"
  /\ pullWire # <<>>
  /\ \E k \in 1..Len(pullWire) :
       /\ pullWire' = SubSeq(pullWire, k + 1, Len(pullWire))
       /\ pullProgress' = pullProgress \o DecodeChunk(SubSeq(pullWire, 1, k)).out
  /\ UNCHANGED <<pullPc, pullSent, pullClosed, pullLocked, pullResult>>
  /\ UNCHANGED otherThanPull

\* reader.read() resolves with done: break, return { success: true }
PullReadDone ==
  /\ pullPc = "reading"
  /\ pullWire = <<>>
  /\ pullClosed
  /\ pullPc' = "done"
  /\ pullResult' = "success"
  /\ UNCHANGED <<pullSent, pullWire, pullClosed, pullProgress, pullLocked>>
  /\ UNCHANGED otherThanPull

\* reader.read() rejects: the catch returns { success: false }
PullReadFails ==
  /\ pullPc = "reading"
  /\ pullPc' = "failed"
  /\ pullResult' = "failure"
  /\ UNCHANGED <<pullSent, pullWire, pullClosed, pullProgress, pullLocked>>
  /\ UNCHANGED otherThanPull

NextPull ==
  \/ PullModel
  \/ PullServerWriteLine
  \/ PullServerClose
  \/ PullReadChunk
  \/ PullReadDone
  \/ PullReadFails

\* ------------------------------------------------------------------------
\* LLMService: initialize and setModel (config.js 114-160), over the
\* client's testConnection, isModelAvailable and pullModel
\* ------------------------------------------------------------------------

\* this.currentModel = null
NoModel == "null"

\* how a pull may go: the response is not ok, the fetch rejects, a read
\* rejects, or the feed is read to its end
PullOutcomes == {"status", "network", "readFails", "done"}

\* pullModel(modelName): { success: true } after the read loop,
\* { success: false, error } from its catch
pullModel(outcome) == [success |-> outcome = "done"]

\* variant of setModel that goes on whatever the pull returned
setModelAfterPullIgnoresResult(pulled) == "returned"

\* setModel once the pull has returned: if (!pulled.success) throw
setModelAfterPull(pulled) ==
  IF pulled.success THEN "returned" ELSE "threw"

\* a call that has just been made; listed is what isModelAvailable returned
\* to it, connection and pull are how its connection test and its pull went
NewServiceCall(op, modelName, pc) ==
  [op |-> op, model |-> modelName, pc |-> pc, connection |-> "none",
   listed |-> "none", pull |-> "none"]

InitService ==
  /\ currentModel = NoModel
  /\ serviceCalls = <<>>

\* initialize(modelName) is called and awaits testConnection
ServiceInitialize ==
  /\ Len(serviceCalls) < MaxServiceCalls
  /\ \E m \in ModelNames \cup {NoModel} :
       serviceCalls' = Append(serviceCalls, NewServiceCall("initialize", m, "testing"))
  /\ UNCHANGED currentModel
  /\ UNCHANGED otherThanService

\* setModel(modelName) is called and awaits isModelAvailable
ServiceSetModel ==
  /\ Len(serviceCalls) < MaxServiceCalls
  /\ \E m \in ModelNames :
       serviceCalls' = Append(serviceCalls, NewServiceCall("setModel", m, "checking"))
  /\ UNCHANGED currentModel
  /\ UNCHANGED otherThanService

\* testConnection settles: initialize throws on a failure, goes on to
\* setModel when it was given a model name, and returns otherwise
ConnectionTested ==
  /\ \E i \in DOMAIN serviceCalls, success \in BOOLEAN :
       /\ serviceCalls[i].pc = "testing"
       /\ serviceCalls' =
            [serviceCalls EXCEPT
               ![i].connection = IF success THEN "ok" ELSE "failed",
               ![i].pc = IF ~success THEN "threw"
                         ELSE IF serviceCalls[i].model # NoModel THEN "checking"
                         ELSE "returned"]
  /\ UNCHANGED currentModel
  /\ UNCHANGED otherThanService

\* isModelAvailable settles: a listed model becomes the current one, for
\* another one setModel awaits pullModel
ModelChecked ==
  /\ \E i \in DOMAIN serviceCalls, l \in Listings :
       /\ serviceCalls[i].pc = "checking"
       /\ IF isModelAvailable(l, serviceCalls[i].model)
            THEN /\ serviceCalls' = [serviceCalls EXCEPT ![i].listed = "yes",
                                                         ![i].pc = "returned"]
                 /\ currentModel' = serviceCalls[i].model
            ELSE /\ serviceCalls' = [serviceCalls EXCEPT ![i].listed = "no",
                                                         ![i].pc = "pulling"]
                 /\ UNCHANGED currentModel
  /\ UNCHANGED otherThanService

\* pullModel settles: setModel throws, or sets the model and returns; an
\* initialize that called it rethrows or returns
ModelPulled ==
  /\ \E i \in DOMAIN serviceCalls, outcome \in PullOutcomes :
       /\ serviceCalls[i].pc = "pulling"
       /\ LET pulled == pullModel(outcome)
              pc == setModelAfterPull(pulled) IN
            /\ serviceCalls' =
                 [serviceCalls EXCEPT
                    ![i].pull = IF pulled.success THEN "success" ELSE "failure",
                    ![i].pc = pc]
            /\ currentModel' = IF pc = "returned" THEN serviceCalls[i].model
                                ELSE currentModel
  /\ UNCHANGED otherThanService

NextService ==
  \/ ServiceInitialize
  \/ ServiceSetModel
  \/ ConnectionTested
  \/ ModelChecked
  \/ ModelPulled

\* ------------------------------------------------------------------------
\* Conversation: the handlers of ChatInterfaceView around one send at a time.
\* A handler's state updates are committed together; the three save effects
\* then run on the committed state.  ChatInput takes no submit while useLLM
\* is loading, so a send starts only when the one before it has settled.
\* ------------------------------------------------------------------------

NoSend == [pc |-> "none"]

MessageText == "hi"
ErrorText   == "Sorry, I encountered an error"
\* the values of cleanAnswer the callback is handed during a stream
Answers == {"a", "ab"}

InitConversation ==
  /\ clock = 1
  /\ send = NoSend
  /\ sendCount = 0

\* the effects that save the chat list, the messages and the selection
PersistEffects(s, sel, hist, msgs) ==
  LET s1 == IF hist.items # <<>>
              THEN chatHistory_save(s, NoFault, hist).store ELSE s
      s2 == IF Truthy(sel) /\ msgs.items # <<>>
              THEN chatMessages_save(s1, NoFault, sel, msgs).store ELSE s1 IN
    appSettings_update(s2, NoFault, "selectedChatId", sel).store

\* the handler ends with these values of the view's state
Commit(s, sel, hist, msgs) ==
  /\ selectedChat' = sel
  /\ viewChatHistory' = hist
  /\ viewMessages' = msgs
  /\ ls' = PersistEffects(s, sel, hist, msgs)

\* prev.map(msg => msg.id === id ? { ...msg, ...patch } : msg)
PatchById(msgs, id, patch) ==
  Arr([i \in 1..Len(msgs.items) |->
         IF Prop(msgs.items[i], "id") = id
           THEN Obj(Merge(SpreadFields(msgs.items[i]), patch))
           ELSE msgs.items[i]])

\* const assistantMessageId = Date.now() + 1
assistantId(userId, now) == now + 1

\* handleSendMessage up to the await: the chat is created when none is
\* selected, the user message and the assistant placeholder are appended.
\* Date.now() is read for the chat id, for the user message id and for the
\* assistant message id; the clock may advance between the reads.
HandleSendMessage ==
  /\ viewPc = "loaded"
  /\ send.pc \notin {"streaming"}
  /\ sendCount < MaxSends
  /\ \E d1 \in {0, 1}, d2 \in {0, 1} :
       LET t1 == clock
           t2 == clock + d1
           t3 == clock + d1 + d2
           currentChatId == IF Truthy(selectedChat) THEN selectedChat ELSE Num(t1)
           newChat == Obj([id |-> currentChatId, title |-> Str(MessageText),
                           timestamp |-> Str("Just now"),
                           preview |-> Str("New conversation..."),
                           createdAt |-> IsoStr(t1)])
           newUserMessage == Obj([id |-> Num(t2), type |-> Str("user"),
                                  content |-> Str(MessageText),
                                  timestamp |-> DateObj(t2)])
           assistantMessage == Obj([id |-> Num(assistantId(t2, t3)),
                                    type |-> Str("assistant"),
                                    content |-> Str(""),
                                    timestamp |-> DateObj(t3)]) IN
         /\ t3 <= MaxClock
         /\ clock' = t3
         /\ send' = [pc |-> "streaming", chatId |-> currentChatId,
                     userId |-> Num(t2),
                     assistantMessageId |-> Num(assistantId(t2, t3)),
                     chatHistory |-> viewChatHistory, answer |-> ""]
         /\ Commit(ls, currentChatId,
                   IF Truthy(selectedChat) THEN viewChatHistory
                   ELSE Arr(<<newChat>> \o viewChatHistory.items),
                   Arr(viewMessages.items \o <<newUserMessage, assistantMessage>>))
  /\ sendCount' = sendCount + 1
  /\ UNCHANGED otherThanConversation

\* the onChunk callback: the message with the assistant id takes the answer
OnChunk ==
  /\ send.pc = "streaming"
  /\ \E cleanAnswer \in Answers :
       /\ send' = [send EXCEPT !.answer = cleanAnswer]
       /\ Commit(ls, selectedChat, viewChatHistory,
                 PatchById(viewMessages, send.assistantMessageId,
                           [content |-> Str(cleanAnswer)]))
  /\ UNCHANGED <<clock, sendCount>>
  /\ UNCHANGED otherThanConversation

\* sendMessageStream returns: the chat found in the handler's own chatHistory
\* gets its preview, and replaces the entry with its id in the chat list
SendResolves ==
  /\ send.pc = "streaming"
  /\ send' = [send EXCEPT !.pc = "resolved"]
  /\ LET found == { i \in 1..Len(send.chatHistory.items) :
                      Prop(send.chatHistory.items[i], "id") = send.chatId } IN
       IF found = {} THEN Commit(ls, selectedChat, viewChatHistory, viewMessages)
       ELSE LET chatToUpdate == send.chatHistory.items[CHOOSE i \in found :
                                                         \A k \in found : i <= k]
                updatedChat == Obj(Merge(SpreadFields(chatToUpdate),
                                 [timestamp |-> Str("Just now"),
                                  preview |-> Str("AI response received"),
                                  lastMessageAt |-> IsoStr(clock)])) IN
         Commit(ls, selectedChat,
                Arr([i \in 1..Len(viewChatHistory.items) |->
                       IF Prop(viewChatHistory.items[i], "id") = send.chatId
                         THEN updatedChat ELSE viewChatHistory.items[i]]),
                viewMessages)
  /\ UNCHANGED <<clock, sendCount>>
  /\ UNCHANGED otherThanConversation

\* sendMessageStream throws (model unavailable, status, transport, failed
\* read): the catch puts the error text in the message with the assistant id
SendFails ==
  /\ send.pc = "streaming"
  /\ send' = [send EXCEPT !.pc = "failed"]
  /\ Commit(ls, selectedChat, viewChatHistory,
            PatchById(viewMessages, send.assistantMessageId,
                      [content |-> Str(ErrorText), isError |-> Bool(TRUE)]))
  /\ UNCHANGED <<clock, sendCount>>
  /\ UNCHANGED otherThanConversation

\* handleChatSelect(chatId): save the messages shown, switch, load
HandleChatSelect ==
  /\ viewPc = "loaded"
  /\ \E i \in 1..Len(viewChatHistory.items) :
       LET chatId == Prop(viewChatHistory.items[i], "id")
           saved == IF Truthy(selectedChat) /\ viewMessages.items # <<>>
                      THEN chatMessages_save(ls, NoFault, selectedChat, viewMessages).store
                      ELSE ls IN
         Commit(saved, chatId, viewChatHistory, loadChatMessages(saved, NoFault, chatId))
  /\ UNCHANGED conversationVars
  /\ UNCHANGED otherThanConversation

\* handleNewChat: save the messages shown, no chat selected, no messages
HandleNewChat ==
  /\ viewPc = "loaded"
  /\ LET saved == IF Truthy(selectedChat) /\ viewMessages.items # <<>>
                    THEN chatMessages_save(ls, NoFault, selectedChat, viewMessages).store
                    ELSE ls IN
       Commit(saved, Null, viewChatHistory, Arr(<<>>))
  /\ UNCHANGED conversationVars
  /\ UNCHANGED otherThanConversation

\* time passes
ClockTick ==
  /\ clock < MaxClock
  /\ clock' = clock + 1
  /\ UNCHANGED <<send, sendCount, viewVars, storeVars>>
  /\ UNCHANGED <<decoderVars, sessionVars, clientVars, segmenterVars, pullVars, sentTail,
                 hookVars, serviceVars>>

NextConversation ==
  \/ ViewMount
  \/ HandleSendMessage
  \/ OnChunk
  \/ SendResolves
  \/ SendFails
  \/ HandleChatSelect
  \/ HandleNewChat
  \/ ClockTick

\* ========================================================================
\* Specifications
\* ========================================================================

InitTail == sentTail = <<>>

Init ==
  /\ InitDecoder
  /\ InitStore
  /\ InitSession
  /\ InitClient
  /\ InitSegmenter
  /\ InitView
  /\ InitPull
  /\ InitTail
  /\ InitConversation
  /\ InitHook
  /\ InitService

\* the stream decoder consuming one streaming response
SpecDecoder == Init /\ [][NextDecoder]_vars

\* the store on a reliable substrate
SpecStore == Init /\ [][NextStore]_vars

\* the chat-history list under addChat, updateChat and deleteChat alone
SpecHistoryIds == Init /\ [][NextHistoryIds]_vars

\* the store on a substrate that may fail and be overwritten from outside
SpecStoreFaulty == Init /\ [][NextStoreFaulty]_vars

\* the store under the persistence hook's clearAllData
SpecClearAll == Init /\ [][NextClearAll]_vars

\* one view: its initialisation, the user's submits, the progress of the
\* sends and their cancellation
SpecSession == Init /\ [][NextSession]_vars

\* the useLLM hook under calls made in any order
SpecHook == Init /\ [][NextHook]_vars

\* LLMService under initialize and setModel calls made in any order
SpecService == Init /\ [][NextService]_vars

\* one generateChatCompletion call of the model server client
SpecClient == Init /\ [][NextClient]_vars

\* the text of one streamed answer passing through the segmenter
SpecSegmenter == Init /\ [][NextSegmenter]_vars

\* the text of one streamed answer that holds no tag
SpecPlain == Init /\ [][NextPlain]_vars

\* the store as earlier sessions left it, and the view mounting on it
SpecView == Init /\ [][NextView]_vars

\* one pullModel call reading its progress feed
SpecPull == Init /\ [][NextPull]_vars

\* the stream decoder on a body that may end with an unterminated text
SpecDecoderTail == Init /\ [][NextDecoderTail]_vars

\* the conversation view: sends, chunks, chat switches, the clock
SpecConversation == Init /\ [][NextConversation]_vars

\* ========================================================================
\* Properties of the store
\* ========================================================================

\* what chatHistoryStorage.load and chatMessagesStorage.loadAll return on a
\* substrate that does not fail
HistoryOf(s) == chatHistory_load(s, NoFault).ret
MessageMapOf(s) == chatMessages_loadAll(s, NoFault).ret

IsRecordList(v) ==
  v.t = "arr" /\ \A k \in 1..Len(v.items) : v.items[k].t = "obj"

\* the key is missing, or its text is empty or is not JSON
Malformed(item) == item.t \in {"absent", "empty", "garbage"}

\* C3: in every state reached by a deleteChat(c), chatMessagesStorage.load(c)
\* returns an empty list.
C3_DeletedChatHasNoMessages ==
  lastOp.name = "deleteChat" =>
    LET r == chatMessages_load(ls, NoFault, lastOp.id) IN
      ~r.threw /\ r.ret = Arr(<<>>)

\* C4: addChat(r) on a stored list of chat records succeeds and leaves a list
\* that starts with r, holds no other entry with r's id, and continues with
\* the other entries of the list before the call, in their previous order.
C4_UpsertToFront ==
  [][ (lastOp'.name = "addChat" /\ IsRecordList(HistoryOf(ls))) =>
        /\ ~threw'
        /\ ret' = Bool(TRUE)
        /\ HistoryOf(ls').t = "arr"
        /\ LET old == HistoryOf(ls).items
               new == HistoryOf(ls').items
               r   == lastOp'.arg IN
             /\ new # <<>>
             /\ new[1] = r
             /\ Cardinality({ k \in 1..Len(new) :
                               Prop(new[k], "id") = Prop(r, "id") }) = 1
             /\ Tail(new) = SelectSeq(old,
                              LAMBDA c : Prop(c, "id") # Prop(r, "id"))
    ]_vars

\* C4 witness: chat 1 was added under its second title to a list that holds
\* two other chats
C4_Witness ==
  /\ lastOp.name = "addChat"
  /\ lastOp.arg = ChatRec(1, "b")
  /\ ret = Bool(TRUE)
  /\ HistoryOf(ls).t = "arr"
  /\ Len(HistoryOf(ls).items) = 3
  /\ HistoryOf(ls).items[1] = ChatRec(1, "b")

\* C7: no call of the store throws to its caller.
C7_NoOperationThrows == ~threw

SaveOps == {"chatHistory.save", "chatMessages.save", "appSettings.save"}

\* C8: a save during which setItem throws does not throw, returns false and
\* leaves every stored text as it was.
C8_FailedSaveKeepsStore ==
  [][ (lastOp'.name \in SaveOps /\ writeFailed') =>
        (~threw' /\ ret' = Bool(FALSE) /\ ls' = ls) ]_vars

\* C8 witness: saving the messages of a chat failed on the write while a
\* message map was stored
C8_Witness ==
  /\ lastOp.name = "chatMessages.save"
  /\ writeFailed
  /\ ret = Bool(FALSE)
  /\ ls[CHAT_MESSAGES] \notin {Absent, Garbage}
  /\ StoredMessages(ls) > 0

\* C9: a load does not throw; it returns the fallback of its collection when
\* the key is missing or its text is malformed, and the stored value
\* otherwise (for the messages of a chat: the stored list of that chat with
\* its timestamps made dates again, the empty list when the chat has none).
C9_LoadFallbackOrStored ==
  /\ lastOp.name = "chatHistory.load" =>
       /\ ~threw
       /\ ret = IF Malformed(ls[CHAT_HISTORY]) THEN Arr(<<>>)
                ELSE JsonParse(ls[CHAT_HISTORY]).val
  /\ lastOp.name = "appSettings.load" =>
       /\ ~threw
       /\ ret = IF Malformed(ls[APP_SETTINGS]) THEN DefaultSettings
                ELSE JsonParse(ls[APP_SETTINGS]).val
  /\ lastOp.name = "chatMessages.load" =>
       /\ ~threw
       /\ Malformed(ls[CHAT_MESSAGES]) => ret = Arr(<<>>)
       /\ ~Malformed(ls[CHAT_MESSAGES]) =>
            LET stored == Prop(JsonParse(ls[CHAT_MESSAGES]).val,
                               ToKey(lastOp.id)) IN
              /\ stored = Undefined => ret = Arr(<<>>)
              /\ IsRecordList(stored) => ret = restoreDateObjects(stored).val

\* C10: after a document exported from the store was imported into an empty
\* store, that store loads the same chat-history list and the same message
\* map as the store that was exported.
C10_ExportImportRoundTrip ==
  lastOp.name = "importFresh" =>
    /\ HistoryOf(fresh) = HistoryOf(ls)
    /\ MessageMapOf(fresh) = MessageMapOf(ls)

\* C10 witness: the exported store holds two chats in its history and two
\* messages in one chat
C10_Witness ==
  /\ lastOp.name = "importFresh"
  /\ ret = Bool(TRUE)
  /\ IsRecordList(HistoryOf(ls))
  /\ Len(HistoryOf(ls).items) = 2
  /\ \E k \in DOMAIN MessageMapOf(ls).fields :
       /\ MessageMapOf(ls).fields[k].t = "arr"
       /\ Len(MessageMapOf(ls).fields[k].items) = 2
  /\ MessageMapOf(fresh) = MessageMapOf(ls)

\* ========================================================================
\* Properties of the session
\* ========================================================================

\* C5: at most one sendMessageStream call is in flight, and a submit made
\* while one is in flight starts no call, issues no request and appends no
\* message.
C5_OneCompletionInFlight ==
  /\ [](Cardinality(InFlightCalls) <= 1)
  /\ [][ (submits' # submits /\ InFlightCalls # {}) =>
           (calls' = calls /\ requests' = requests /\ messages' = messages)
     ]_vars

\* C5 witness: a submit was turned down while the earlier send was streaming
C5_Witness ==
  /\ lastSubmit = "busy"
  /\ \E i \in DOMAIN calls : calls[i].pc = "streaming" /\ calls[i].chunks > 0
  /\ Len(messages) = 2

\* C6: a call on which abortRequest acted does not settle by throwing, and
\* once it has settled isLoading is false unless a later call is in flight.
C6_CancelResolves ==
  \A i \in DOMAIN calls :
    calls[i].aborted =>
      /\ calls[i].pc # "threw"
      /\ (~InFlight(calls[i]) /\ InFlightCalls = {}) => ~isLoading
\* the three sections of an import document and the keys they are saved under
Sections ==
  { <<"chatHistory", CHAT_HISTORY>>, <<"chatMessages", CHAT_MESSAGES>>,
    <<"settings", APP_SETTINGS>> }

\* C11: an importData of a document that does not parse (or parses to null)
\* returns false and changes no key; an importData of a document that parses
\* returns true, leaves the key of an absent section as it was, and writes
\* every present section except the one whose setItem throws.
C11_SectionsIndependent ==
  [][ lastOp'.name = "importData" =>
        LET p == ParseDocument(lastOp'.arg) IN
          /\ ~threw'
          /\ (~p.ok \/ PropThrows(p.val)) => (ret' = Bool(FALSE) /\ ls' = ls)
          /\ (p.ok /\ ~PropThrows(p.val)) =>
               /\ ret' = Bool(TRUE)
               /\ \A sec \in Sections :
                    ~Truthy(Prop(p.val, sec[1])) => ls'[sec[2]] = ls[sec[2]]
               /\ Cardinality({ sec \in Sections :
                     /\ Truthy(Prop(p.val, sec[1]))
                     /\ ls'[sec[2]] # JsonStringify(Prop(p.val, sec[1])) })
                    <= (IF writeFailed' THEN 1 ELSE 0)
    ]_vars

\* C11 witness: the chat-history section of a three-section document could
\* not be written, the two other sections were
C11_Witness ==
  /\ lastOp.name = "importData"
  /\ lastOp.arg = DocFull
  /\ writeFailed
  /\ ret = Bool(TRUE)
  /\ ls[CHAT_HISTORY] # JsonStringify(Prop(JsonParse(DocFull).val, "chatHistory"))
  /\ ls[CHAT_MESSAGES] = JsonStringify(Prop(JsonParse(DocFull).val, "chatMessages"))
  /\ ls[APP_SETTINGS] = JsonStringify(Prop(JsonParse(DocFull).val, "settings"))
\* ========================================================================
\* Properties of the model server client
\* ========================================================================

HasSystemMessage(msgs) == \E k \in 1..Len(msgs) : msgs[k].role = "system"

\* C12: the request carries the caller's messages as they are when one of
\* them has the role system, and otherwise the system instruction followed
\* by the caller's messages in their order.
C12_SystemInstructionInjection ==
  gcRequest.sent =>
    /\ HasSystemMessage(gcMessages) => gcRequest.messages = gcMessages
    /\ ~HasSystemMessage(gcMessages) =>
         /\ Len(gcRequest.messages) = Len(gcMessages) + 1
         /\ gcRequest.messages[1] = SystemMessage
         /\ \A k \in 1..Len(gcMessages) : gcRequest.messages[k + 1] = gcMessages[k]

\* C12 witness: a request was posted for a caller whose second message is a
\* system message
C12_Witness ==
  /\ gcRequest.sent
  /\ Len(gcMessages) = 2
  /\ gcMessages[1].role = "user"
  /\ gcMessages[2].role = "system"
  /\ Len(gcRequest.messages) = 2

\* C13: a chat request is posted only after a listing that names the
\* effective model, for that model; a call whose listing failed or does not
\* name the model has failed and has posted nothing.
C13_RequestOnlyForListedModel ==
  /\ gcRequest.sent =>
       /\ gcListing.ok
       /\ EffectiveModel(gcModelOption) \in gcListing.names
       /\ gcRequest.model = EffectiveModel(gcModelOption)
  /\ (gcPc \notin {"idle", "listing"}
        /\ (~gcListing.ok \/ EffectiveModel(gcModelOption) \notin gcListing.names))
       => (gcPc = "failed" /\ ~gcRequest.sent)

\* C13 witness: the listing failed and the call has failed without a request
C13_Witness ==
  /\ gcPc = "failed"
  /\ ~gcListing.ok
  /\ ~gcRequest.sent
  /\ gcModelOption = Undefined
\* ========================================================================
\* Properties of the segmenter
\* ========================================================================

TagMarkup == {OpenThink, CloseThink, OpenAnswer, CloseAnswer}

\* C14: the content of the assistant message holds none of the four tags.
C14_NoTagMarkupInContent ==
  \A tag \in TagMarkup : ~Includes(liveContent, tag)

\* the positions at which a tag occurs in a text
Occurrences(text, tag) == { i \in 1..Len(text) : IsAt(text, i, tag) }

Least(S) == CHOOSE i \in S : \A k \in S : i <= k

\* what structured mode is to give for one tag pair
TagSection(text, open, close) ==
  LET opens == Occurrences(text, open) IN
    IF opens = {} THEN <<>>
    ELSE LET from   == Least(opens) + Len(open)
             closes == { j \in Occurrences(text, close) : j >= from } IN
      Trim(SubSeq(text, from,
                  IF closes = {} THEN Len(text) ELSE Least(closes) - 1))

\* C20: for a text that holds <think> or <answer>, each side of the result is
\* the trimmed text between the first opening tag and the next closing tag,
\* or up to the end of the text when no closing tag follows, or empty when
\* the opening tag is absent.
C20_StructuredMode ==
  (Occurrences(fullContent, OpenThink) # {} \/ Occurrences(fullContent, OpenAnswer) # {})
    => /\ parsed.thinking = TagSection(fullContent, OpenThink, CloseThink)
       /\ parsed.answer = TagSection(fullContent, OpenAnswer, CloseAnswer)

\* C20 witness: a thinking section closed once and closed again, no answer tag
C20_Witness ==
  /\ fullContent = OpenThink \o <<"x">> \o CloseThink \o CloseThink
  /\ parsed.thinking = <<"x">>
  /\ parsed.answer = <<>>
\* ========================================================================
\* Properties of the view
\* ========================================================================

\* the ids of the records of a chat list
IdsOf(list) ==
  IF list.t # "arr" THEN {}
  ELSE { Prop(list.items[i], "id") :
           i \in { k \in 1..Len(list.items) : ~PropThrows(list.items[k]) } }

\* C15: after the load, a chat is selected only if the chat list that was
\* loaded holds a record with that id.
C15_DanglingSelectionIgnored ==
  (viewPc = "loaded" /\ selectedChat # Null) => selectedChat \in IdsOf(viewChatHistory)
\* ========================================================================
\* Properties of the store under partial failure
\* ========================================================================

\* C16: after clearAll, every key whose removal does not fail is absent,
\* whichever key's removal failed.
C16_ClearAllResilient ==
  [][ \A f \in On(Faults, {}, {}, StorageKeys) :
        ( /\ lastOp'.name = "clearAll"
          /\ ls' = storageUtils_clearAll(ls, f).store
          /\ ret' = storageUtils_clearAll(ls, f).ret )
          => \A k \in StorageKeys \ f.rm : ls'[k] = Absent ]_vars

\* C17: deleteChat(c) on a stored list of chat records and a stored message
\* map carries out each of its two sub-steps whenever the substrate does not
\* fail on that sub-step's own key: the history holds no record with id c
\* unless the history key failed, and the message map holds no list for c
\* unless the messages key failed.
C17_DeleteChatAttemptsBoth ==
  [][ \A f \in Faults, c \in Faulty.ids :
        ( /\ lastOp' = [name |-> "deleteChat", id |-> Num(c), arg |-> Undefined]
          /\ IsRecordList(HistoryOf(ls))
          /\ MessageMapOf(ls).t = "obj"
          /\ ls' = chatHistory_deleteChat(ls, f, Num(c)).store
          /\ threw' = chatHistory_deleteChat(ls, f, Num(c)).threw
          /\ writeFailed' = chatHistory_deleteChat(ls, f, Num(c)).wfail )
          => /\ CHAT_HISTORY \notin (f.rd \cup f.wr)
                  => Num(c) \notin IdsOf(HistoryOf(ls'))
             /\ CHAT_MESSAGES \notin (f.rd \cup f.wr)
                  => Prop(MessageMapOf(ls'), ToKey(Num(c))) = Undefined ]_vars
\* ========================================================================
\* Properties of the readers
\* ========================================================================

\* C18: once the consumption of a streaming response has ended, normally or
\* on a failed read, the reader acquired on its body is released; here for
\* the pull progress feed.
C18_ReaderReleased ==
  pullPc \in {"done", "failed"} => ~pullLocked
\* C19: the text the server wrote after its last line feed is never yielded:
\* a read that delivers exactly that text, the lines before it having been
\* read, adds no record.
C19_TrailingTextDiscarded ==
  [][ (sentTail # <<>> /\ wire = sentTail /\ wire' = <<>>)
        => yielded' = yielded ]_vars
\* ========================================================================
\* Properties of the segmenter, heuristic mode
\* ========================================================================

\* the text holds one of the phrases, whatever its case
HoldsPhrase(text, phrases) ==
  \E ph \in phrases : Occurrences(ToLower(text), ph) # {}

C26_DisplaysFollowSegmenter ==
  contentChunks > 0 =>
    /\ currentThinking = cleanThinkingContent(parsed.thinking)
    /\ liveContent = cleanContentForMainChat(parsed.answer)
    /\ parsed = parseThinkingAndAnswer(fullContent)
\* ========================================================================
\* Properties of the conversation view
\* ========================================================================

\* the ids of a message list are pairwise different
UniqueIds(msgs) ==
  msgs.t = "arr" =>
    \A i, j \in 1..Len(msgs.items) :
      i # j => Prop(msgs.items[i], "id") # Prop(msgs.items[j], "id")

\* the chats of the stored message map
StoredChats == DOMAIN SpreadFields(MessageMapOf(ls))

\* C22: no two messages of a conversation have the same id, in the view and
\* in every stored message list.
C22_MessageIdsUnique ==
  /\ UniqueIds(viewMessages)
  /\ \A c \in StoredChats : UniqueIds(Prop(MessageMapOf(ls), c))

\* the records of a chat list with the given id
RecordsWithId(list, id) ==
  { i \in 1..Len(list.items) : Prop(list.items[i], "id") = id }

\* C23: once a send has resolved, the chat list of the view holds a record
\* of the send's chat with the response preview and lastMessageAt set, the
\* chat created by the send itself included.
C23_PreviewUpdatedAfterSend ==
  send.pc = "resolved" =>
    /\ RecordsWithId(viewChatHistory, send.chatId) # {}
    /\ \A i \in RecordsWithId(viewChatHistory, send.chatId) :
         /\ Prop(viewChatHistory.items[i], "preview") = Str("AI response received")
         /\ Prop(viewChatHistory.items[i], "timestamp") = Str("Just now")
         /\ Prop(viewChatHistory.items[i], "lastMessageAt") # Undefined

\* the stored message list of the chat in which the last send was started
StoredOfSend == chatMessages_load(ls, NoFault, send.chatId).ret

\* C24: once a send has resolved, the stored message list of its chat ends
\* with the send's user message followed by the assistant message holding
\* the last answer the stream gave.
C24_AnswerPersistedInOwnChat ==
  send.pc = "resolved" =>
    LET l == StoredOfSend.items
        n == Len(l) IN
      /\ n >= 2
      /\ Prop(l[n - 1], "id") = send.userId
      /\ Prop(l[n - 1], "type") = Str("user")
      /\ Prop(l[n], "id") = send.assistantMessageId
      /\ Prop(l[n], "type") = Str("assistant")
      /\ Prop(l[n], "content") = Str(send.answer)

\* C25: once a send has failed, its assistant message, in the stored list
\* of its chat, holds the error text and isError.
C25_ErrorReplacesContent ==
  send.pc = "failed" =>
    /\ \E i \in 1..Len(StoredOfSend.items) :
         /\ Prop(StoredOfSend.items[i], "id") = send.assistantMessageId
         /\ Prop(StoredOfSend.items[i], "type") = Str("assistant")
    /\ \A i \in 1..Len(StoredOfSend.items) :
         ( /\ Prop(StoredOfSend.items[i], "id") = send.assistantMessageId
           /\ Prop(StoredOfSend.items[i], "type") = Str("assistant") )
           => /\ Prop(StoredOfSend.items[i], "isError") = Bool(TRUE)
              /\ Prop(StoredOfSend.items[i], "content") = Str(ErrorText)

\* ========================================================================
\* Properties of the pull progress feed
\* ========================================================================

\* C27: a pull whose feed ended has handed onProgress one value per
\* well-formed line of the feed, in feed order, and returned success; a pull
\* whose request or read failed has returned failure.
C27_ProgressPerRecord ==
  /\ pullPc = "done" =>
       (pullProgress = RecordsOf(pullSent) /\ pullResult = "success")
  /\ pullPc = "failed" => pullResult = "failure"

\* ========================================================================
\* Frame properties of the store
\* ========================================================================

\* C28: updateChat(id, patch) on a stored list of chat records does not
\* throw, leaves the message map as it was and leaves a list of the same
\* length in which every entry with another id is as before, in its place,
\* and every entry with that id is the entry before with the patch merged
\* over it; with no such entry the list is as before.
C28_UpdateChatFrame ==
  [][ (lastOp'.name = "updateChat" /\ IsRecordList(HistoryOf(ls))) =>
        LET h  == HistoryOf(ls).items
            hh == HistoryOf(ls').items IN
          /\ ~threw'
          /\ ls'[CHAT_MESSAGES] = ls[CHAT_MESSAGES]
          /\ ls'[APP_SETTINGS] = ls[APP_SETTINGS]
          /\ Len(hh) = Len(h)
          /\ \A i \in 1..Len(h) :
               hh[i] = IF Prop(h[i], "id") = lastOp'.id
                         THEN Obj(Merge(SpreadFields(h[i]), SpreadFields(lastOp'.arg)))
                         ELSE h[i] ]_vars

\* C28 witness: the second of two chats was given the title "a", in place
C28_Witness ==
  /\ lastOp.name = "updateChat"
  /\ lastOp.id = Num(1)
  /\ HistoryOf(ls) = Arr(<<ChatRec(2, "a"), ChatRec(1, "a")>>)

\* C29: no two entries of the stored chat-history list have the same id.
C29_HistoryIdsUnique ==
  LET h == HistoryOf(ls) IN
    h.t = "arr" =>
      \A i, j \in 1..Len(h.items) :
        i # j => Prop(h.items[i], "id") # Prop(h.items[j], "id")

MessageOps == {"chatMessages.save", "addMessage", "updateMessage", "chatMessages.delete"}

\* the store after addMessage(c, m) on store s
AfterAdd(s, c, m) == chatMessages_addMessage(s, NoFault, Num(c), m).store

C31_DeleteChatSuccessFaithful ==
  (lastOp.name = "deleteChat" /\ ~threw /\ ret = Bool(TRUE)) =>
    /\ lastOp.id \notin IdsOf(HistoryOf(ls))
    /\ Prop(MessageMapOf(ls), ToKey(lastOp.id)) = Undefined

\* C33: in every state reached by a clearAllData() that returned true, the
\* chat-history key, the chat-messages key and the settings key are absent,
\* so the settings that load hold no selectedChatId of a chat that is gone.
C33_ClearAllDataClearsAll ==
  (lastOp.name = "clearAllData" /\ ret = Bool(TRUE)) =>
    /\ ls[CHAT_HISTORY] = Absent
    /\ ls[CHAT_MESSAGES] = Absent
    /\ ls[APP_SETTINGS] = Absent
    /\ LET sel == Prop(loadSettings(ls, NoFault), "selectedChatId") IN
         Truthy(sel) => sel \in IdsOf(HistoryOf(ls))

\* C32: while a sendMessage or sendMessageStream call is in flight,
\* isLoading is true and the ref holds that call's abort controller, so that
\* abortRequest reaches it, whatever other calls of the hook started or
\* settled meanwhile.
C32_InFlightCallTracked ==
  \A i \in InFlightCalls : isLoading /\ abortControllerRef = i

\* C34: currentModel changes only in the step in which a setModel (called
\* directly or by initialize) returns, and then to the model of that call,
\* which the server listed or whose pull returned success; a call whose pull
\* returns failure throws and a call whose connection test fails throws, and
\* neither changes currentModel.
C34_CurrentModelListedOrPulled ==
  [][ /\ currentModel' # currentModel =>
           \E i \in DOMAIN serviceCalls :
             /\ serviceCalls[i].pc \in {"checking", "pulling"}
             /\ serviceCalls'[i].pc = "returned"
             /\ serviceCalls'[i].model = currentModel'
             /\ \/ serviceCalls'[i].listed = "yes"
                \/ serviceCalls'[i].pull = "success"
      /\ \A i \in DOMAIN serviceCalls :
           /\ (serviceCalls[i].pull = "none" /\ serviceCalls'[i].pull = "failure")
                => (serviceCalls'[i].pc = "threw" /\ currentModel' = currentModel)
           /\ (serviceCalls[i].connection = "none"
                 /\ serviceCalls'[i].connection = "failed")
                => (serviceCalls'[i].pc = "threw" /\ currentModel' = currentModel)
    ]_vars

\* C34 witness: a model was set after a successful pull, then a setModel of
\* another model threw on a failed pull and an initialize threw on a failed
\* connection test, and the model set first is still the current one
C34_Witness ==
  \E i, j, k \in DOMAIN serviceCalls :
    /\ serviceCalls[i].pc = "returned"
    /\ serviceCalls[i].pull = "success"
    /\ currentModel = serviceCalls[i].model
    /\ serviceCalls[j].op = "setModel"
    /\ serviceCalls[j].pc = "threw"
    /\ serviceCalls[j].pull = "failure"
    /\ serviceCalls[j].model # currentModel
    /\ serviceCalls[k].op = "initialize"
    /\ serviceCalls[k].pc = "threw"
    /\ serviceCalls[k].connection = "failed"
    /\ serviceCalls[k].model # currentModel
====
